---- MODULE Spec2Model ----
(***************************************************************************)
(* Model of the schema-adaptive query engine of RRAData                    *)
(* (src/Project/core/duckdb_processor.py).                                 *)
(*                                                                         *)
(* Spec      one executor (DuckDBProcessor.search_streaming._execute_query)*)
(*           answering a sequence of requests for one fixed query over an  *)
(*           unchanged dataset: pagination, total count, streaming sink.   *)
(* SpecPool  concurrent requests over the process-global connection pool   *)
(*           and the remote embedded-database download cache.              *)
(* SpecSchema   concurrent schema lookups over the two schema caches.      *)
(* SpecCompile  the query compiler of one processor: search predicate,     *)
(*           filter predicate and projection over a given schema.          *)
(* SpecQuery    the compile phase of one search: the three compiler calls  *)
(*           and the assembly of the final statement and its parameters.   *)
(***************************************************************************)
EXTENDS Integers, Sequences, FiniteSets, TLC

(* ------------------------------ bounds --------------------------------- *)
MaxThreads == 2
MaxRows == 3
MaxLimit == 2
MaxPage == 3
MaxChunk == 2
MaxCalls == 2
MaxKeywordLen == 2
\* size of the local data file, in MB
LocalFileMB == 7

(* -------------------------- program constants -------------------------- *)
\* batch_fetch_size of collect mode
CollectBatchSize == 1000
\* chunk_size the Excel export passes
ExportChunkSize == 1000
\* file size above which "Could not read" counts as a large-file failure
LargeFileMB == 500
\* size assumed for a URL
RemoteFileMB == 100

(* ------------------------------ helpers -------------------------------- *)
\* Optional[int]: None is the empty sequence, a present value n is <<n>>.
None == <<>>
Some(n) == <<n>>

Min(a, b) == IF a <= b THEN a ELSE b

RECURSIVE SumLen(_)
SumLen(calls) ==
    IF calls = <<>> THEN 0
    ELSE Len(calls[Len(calls)].rows) + SumLen(SubSeq(calls, 1, Len(calls) - 1))

RECURSIVE ConcatRows(_)
ConcatRows(calls) ==
    IF calls = <<>> THEN <<>>
    ELSE ConcatRows(SubSeq(calls, 1, Len(calls) - 1)) \o calls[Len(calls)].rows

NoDuplicates(s) == \A i, j \in 1..Len(s) : i # j => s[i] # s[j]

VARIABLES
    \* ---- the fixed query and the unchanged dataset (Spec) ----
    dataset,            \* matching rows: row i carries date key dataset[i]
    file_kind,          \* "json" | "parquet" | "duckdb"
    limit,              \* Optional[int]
    \* ---- one request of the executor ----
    pc,                 \* "idle" | "compiling" | "fetching" | "finishing" | "done" | "failed"
                        \* | "raised" (an exception left _execute_query)
    page,
    collect_results,
    chunk_callback,     \* TRUE when a sink is supplied
    chunk_size,
    query_rows,         \* the row sequence the statement returns
    fetched,            \* cursor position in query_rows
    results,
    chunk_buffer,
    total_processed,
    total_count_window,
    sink_calls,         \* invocations of the sink: [rows, total]
    fetches,            \* number of non-empty batches fetched
    batch_error,
    result,
    \* ---- what a client paging through the query has seen ----
    next_page,
    concat,
    collect_total,
    stream_total,
    \* ---- process-global pool state (SpecPool) ----
    CONNECTION_CACHE,           \* connection key -> Optional connection id
    CONNECTION_LOCKS,           \* connection key -> Optional lock id
    CONNECTION_CACHE_LOCK,      \* thread holding it, 0 when free
    DUCKDB_REMOTE_CACHE,        \* remote locator -> Optional local path
    DUCKDB_REMOTE_CACHE_LOCK,   \* thread holding it, 0 when free
    cache_files,                \* files present under DUCKDB_CACHE_ROOT
    temp_files,                 \* '.download' temp files present there
    lock_holder,                \* key -> per lock created for it: holder, 0 when free
    conn_created,               \* key -> connections created for it so far
    \* ---- one request per thread ----
    tpc,                        \* position of the thread in its request
    op,                         \* "search" | "distinct"
    loc,                        \* locator of the request
    my_conn,                    \* connection _get_connection returned (nth of its key)
    my_lock,                    \* lock _get_connection returned (nth of its key)
    local_path,                 \* self._local_duckdb_path
    materialized,               \* how the last materialization got its path
    local_files,                \* local data files that exist
    catalog,                    \* connection key -> attachments and views of its connection
    file_size_mb,               \* file_size_mb of the request, once measured
    \* ---- schema caches and their callers (SpecSchema) ----
    SCHEMA_CACHE_BY_URL,        \* cache key (locator) -> Optional column list
    SCHEMA_CACHE_BY_FILENAME,   \* bare file name -> Optional column list
    spc,                        \* caller -> "idle" | "introspecting"
    sloc,                       \* caller -> Optional locator of its call in progress
    temp_conn,                  \* caller -> its introspection connection is open
    returned,                   \* the last call returned: [fields, source]
    lookups,                    \* locator -> completed _get_available_fields calls
    introspections,             \* locator -> calls that went to direct introspection
    served,                     \* locator -> a call on it has returned a schema
    \* ---- one processor's query compiler (SpecCompile) ----
    available_fields,           \* the column list _get_available_fields returns
    dynamic_required_fields,    \* self.dynamic_required_fields
    cpc,                        \* "new" | "where" | "filter" | "projected" | "final"
    compiled,                   \* the last compiler call: its inputs and result
    query                       \* the statement being assembled: the local variables
                                \* of _execute_query ([op |-> "off"]: not followed)

execVars == <<dataset, file_kind, limit, pc, page, collect_results, chunk_callback,
              chunk_size, query_rows, fetched, results, chunk_buffer,
              total_processed, total_count_window, sink_calls, fetches,
              batch_error, result, next_page, concat, collect_total, stream_total>>

poolVars == <<CONNECTION_CACHE, CONNECTION_LOCKS, CONNECTION_CACHE_LOCK,
              DUCKDB_REMOTE_CACHE, DUCKDB_REMOTE_CACHE_LOCK, cache_files,
              temp_files, lock_holder, conn_created, tpc, op, loc, my_conn, my_lock,
              local_path, materialized, local_files, file_size_mb, catalog>>

schemaVars == <<SCHEMA_CACHE_BY_URL, SCHEMA_CACHE_BY_FILENAME, spc, sloc,
                temp_conn, returned, lookups, introspections, served>>

\* state of schema resolution and query compilation
compileVars == <<available_fields, dynamic_required_fields, cpc, compiled, query>>

planVars == <<schemaVars, compileVars>>

vars == <<execVars, poolVars, planVars>>

(* ------------------------- request parameters -------------------------- *)
Pages == 1..MaxPage
ChunkSizes == (1..MaxChunk) \cup {ExportChunkSize}
FileKinds == <<"parquet", "duckdb", "json">>
\* the matching rows by their date keys: two rows either tie on the ORDER BY
\* key or do not
Datasets == UNION {[1..n -> {1, 2}] : n \in 0..MaxRows}
\* (collect_results, chunk_callback given): search, streamAll, and a call that
\* neither collects nor supplies a sink
Modes == {<<TRUE, FALSE>>, <<FALSE, TRUE>>, <<FALSE, FALSE>>}

\* effective_limit = None if limit is None or limit <= 0 else limit
effective_limit == IF limit = None \/ limit[1] <= 0 THEN None ELSE limit

\* offset = (page - 1) * effective_limit if effective_limit else 0
offset == IF effective_limit # None THEN (page - 1) * effective_limit[1] ELSE 0

\* streaming_mode = not collect_results and chunk_callback is not None
streaming_mode == (~collect_results) /\ chunk_callback

TotalRows == Len(dataset)

RowPermutations(n) == {s \in [1..n -> 1..n] : \A i, j \in 1..n : i # j => s[i] # s[j]}

\* The orders in which the engine may return the matching rows.  Tabular files
\* are read with order_by = None on a connection configured with
\* preserve_insertion_order = false: any order.  JSON files are ordered by the
\* date expression DESC; rows with equal keys come in any order.
\* using_parquet: a tabular path resolves for parquet and embedded-database
\* files.
RowOrders ==
    IF file_kind \in {"parquet", "duckdb"}
    THEN RowPermutations(TotalRows)
    ELSE {s \in RowPermutations(TotalRows) :
            \A i, j \in 1..TotalRows : i < j => dataset[s[i]] >= dataset[s[j]]}

\* LIMIT effective_limit OFFSET offset applied to an ordered row sequence
LimitOffset(order) ==
    SubSeq(order, offset + 1,
           IF effective_limit = None THEN Len(order)
           ELSE Min(Len(order), offset + effective_limit[1]))

(* --------------------------- executor: Spec ---------------------------- *)
ExecInit ==
    /\ dataset \in Datasets
    /\ \E k \in 1..Len(FileKinds) : file_kind = FileKinds[k]
    /\ limit \in {None} \cup {Some(n) : n \in (0 - 1)..MaxLimit}
    /\ pc = "idle"
    /\ page = 1
    /\ collect_results = TRUE
    /\ chunk_callback = FALSE
    /\ chunk_size = ExportChunkSize
    /\ query_rows = <<>>
    /\ fetched = 0
    /\ results = <<>>
    /\ chunk_buffer = <<>>
    /\ total_processed = 0
    /\ total_count_window = None
    /\ sink_calls = <<>>
    /\ fetches = 0
    /\ batch_error = FALSE
    /\ result = [error |-> "none"]
    /\ next_page = 1
    /\ concat = <<>>
    /\ collect_total = None
    /\ stream_total = None

History == <<next_page, concat, collect_total, stream_total>>
Query == <<dataset, file_kind, limit>>
Request == <<page, collect_results, chunk_callback, chunk_size>>

\* search_streaming is entered with (page, collect_results, chunk_callback,
\* chunk_size); _execute_query starts with empty request-local state.
StartRequest(p, cr, cb, cs) ==
    /\ pc \in {"idle", "done", "failed", "raised"}
    /\ pc' = "compiling"
    /\ page' = p
    /\ collect_results' = cr
    /\ chunk_callback' = cb
    /\ chunk_size' = cs
    /\ query_rows' = <<>>
    /\ fetched' = 0
    /\ results' = <<>>
    /\ chunk_buffer' = <<>>
    /\ total_processed' = 0
    /\ total_count_window' = None
    /\ sink_calls' = <<>>
    /\ fetches' = 0
    /\ batch_error' = FALSE
    /\ result' = [error |-> "none"]
    /\ UNCHANGED <<poolVars, planVars, Query, History>>

\* result = conn.execute(filtered_query, combined_parameters)
ExecuteQuery ==
    /\ pc = "compiling"
    /\ \E order \in RowOrders : query_rows' = LimitOffset(order)
    /\ pc' = "fetching"
    /\ UNCHANGED <<poolVars, planVars, Query, Request, fetched, results, chunk_buffer, total_processed,
                   total_count_window, sink_calls, fetches, batch_error, result,
                   History>>

\* str(e) of the exceptions the engine raises in the try block: the two
\* messages the handler looks for, and any other
EngineErrors == {"maximum_object_size", "Could not read", "Binder Error"}

\* round(file_size_mb): 100 for a URL, the size of a local file otherwise
FileSizes == {0, 100, 600}

\* the dictionary the except branch returns: the large-file error when
\* "maximum_object_size" in str(e) or
\* (file_size_mb > 500 and "Could not read" in str(e))
ErrorResult(e, size_mb) ==
    IF e = "maximum_object_size" \/ (size_mb > LargeFileMB /\ e = "Could not read")
    THEN [error |-> "large_file_processing_failed", message |-> "file too large",
          suggestion |-> TRUE, file_size_mb |-> size_mb]
    ELSE [error |-> "query_execution_failed", message |-> e]

\* building the base query or the statement raises inside the try block:
\* except Exception as e -> error result
ExecuteFail(e, size_mb) ==
    /\ pc = "compiling"
    /\ pc' = "failed"
    /\ result' = ErrorResult(e, size_mb)
    /\ UNCHANGED <<poolVars, planVars, Query, Request, query_rows, fetched, results, chunk_buffer,
                   total_processed, total_count_window, sink_calls, fetches,
                   batch_error, History>>

\* file_size_mb = self._get_file_size_mb() at line 1274, before the try
\* block: stat() of a local file that is not there any more raises, and the
\* exception leaves _execute_query and search_streaming
SizeRaise ==
    /\ pc = "compiling"
    /\ pc' = "raised"
    /\ UNCHANGED <<poolVars, planVars, Query, Request, query_rows, fetched, results,
                   chunk_buffer, total_processed, total_count_window, sink_calls,
                   fetches, batch_error, result, History>>

\* batch = result.fetchmany(batch_fetch_size), with
\* batch_fetch_size = chunk_size if streaming_mode else 1000
NextBatch ==
    SubSeq(query_rows, fetched + 1,
           Min(Len(query_rows),
               fetched + (IF streaming_mode THEN chunk_size ELSE CollectBatchSize)))

\* rows of the batch the inner loop handles before
\* "if effective_limit is not None and total_processed >= effective_limit: break"
Handled(batch) ==
    IF effective_limit = None THEN batch
    ELSE SubSeq(batch, 1,
                Min(Len(batch),
                    IF effective_limit[1] - total_processed >= 1
                    THEN effective_limit[1] - total_processed ELSE 1))

\* chunk_callback(chunk_buffer.copy(), total_processed)
SinkCall(buffer, tp) == [rows |-> buffer, total |-> tp]

\* the buffer is handed over but never cleared
ClearedBuffer_kept(buffer) == buffer

\* chunk_buffer.clear() after the sink returned
ClearedBuffer(buffer) == <<>>

\* One iteration of the "while True" batch loop with a non-empty batch.
\* sinkRaises: the sink raises inside this iteration.
FetchBatch(sinkRaises) ==
    /\ pc = "fetching"
    /\ NextBatch # <<>>
    /\ LET batch == NextBatch
           rows == Handled(batch)
           tp == total_processed + Len(rows)
           buffer == IF streaming_mode THEN chunk_buffer \o rows ELSE chunk_buffer
           calls == streaming_mode /\ chunk_callback /\ buffer # <<>>
       IN /\ fetched' = fetched + Len(batch)
          /\ fetches' = fetches + 1
          /\ total_processed' = tp
          /\ total_count_window' = Some(TotalRows)
          /\ results' = IF streaming_mode THEN results ELSE results \o rows
          /\ sinkRaises => calls
          /\ sink_calls' = IF calls THEN Append(sink_calls, SinkCall(buffer, tp))
                           ELSE sink_calls
          /\ chunk_buffer' = IF calls /\ ~sinkRaises THEN ClearedBuffer(buffer)
                             ELSE buffer
          /\ batch_error' = sinkRaises
          /\ pc' = IF sinkRaises \/ (effective_limit # None /\ tp >= effective_limit[1])
                   THEN "finishing" ELSE "fetching"
    /\ UNCHANGED <<poolVars, planVars, Query, Request, query_rows, result, History>>

\* fetchmany returns no rows: "if not batch: break", then the trailing flush
\* "if streaming_mode and chunk_callback and chunk_buffer"
FetchExhausted ==
    /\ pc = "fetching"
    /\ NextBatch = <<>>
    /\ LET calls == streaming_mode /\ chunk_callback /\ chunk_buffer # <<>>
       IN /\ sink_calls' = IF calls
                           THEN Append(sink_calls, SinkCall(chunk_buffer, total_processed))
                           ELSE sink_calls
          /\ chunk_buffer' = IF calls THEN ClearedBuffer(chunk_buffer) ELSE chunk_buffer
    /\ pc' = "finishing"
    /\ UNCHANGED <<poolVars, planVars, Query, Request, query_rows, fetched, results, total_processed,
                   total_count_window, fetches, batch_error, result, History>>

\* fetchmany raises: except Exception as batch_error -> logged, loop left
FetchFail ==
    /\ pc = "fetching"
    /\ batch_error' = TRUE
    /\ pc' = "finishing"
    /\ UNCHANGED <<poolVars, planVars, Query, Request, query_rows, fetched, results, chunk_buffer,
                   total_processed, total_count_window, sink_calls, fetches,
                   result, History>>

\* total_count of the result (count_query is None on every path)
total_count ==
    IF results # <<>>
    THEN (IF total_count_window # None THEN total_count_window[1] ELSE total_processed)
    ELSE 0

\* floor instead of ceiling division
total_pages_floor ==
    IF effective_limit # None THEN total_count \div effective_limit[1] ELSE 1

\* total_pages = (total_count + effective_limit - 1) // effective_limit, else 1
total_pages ==
    IF effective_limit # None
    THEN (total_count + effective_limit[1] - 1) \div effective_limit[1]
    ELSE 1

has_next == IF effective_limit # None THEN page < total_pages ELSE FALSE

has_prev == page > 1

items_per_page == IF effective_limit # None THEN effective_limit[1] ELSE total_count

\* the dictionary _execute_query returns on success
SuccessResult ==
    [error |-> "none",
     results |-> IF ~streaming_mode THEN results ELSE <<>>,
     total_count |-> total_count,
     total_pages |-> total_pages,
     current_page |-> page,
     items_per_page |-> items_per_page,
     has_next |-> has_next,
     has_prev |-> has_prev,
     processed_records |-> total_processed]

\* A client reading pages 1, 2, ... of the query in collect mode: page 1
\* restarts the walk, the page after the last one read extends it.
WalkStep ==
    IF collect_results /\ ~batch_error /\ effective_limit # None /\ page = 1
    THEN /\ next_page' = 2
         /\ concat' = results
    ELSE IF collect_results /\ ~batch_error /\ effective_limit # None /\ page = next_page
    THEN /\ next_page' = next_page + 1
         /\ concat' = concat \o results
    ELSE UNCHANGED <<next_page, concat>>

\* Totals reported by search(limit = None) and by streamAll(chunkSize = 1000)
TotalsStep ==
    /\ collect_total' = IF collect_results /\ ~batch_error /\ limit = None
                        THEN Some(total_count) ELSE collect_total
    /\ stream_total' = IF streaming_mode /\ ~batch_error /\ limit = None
                          /\ chunk_size = ExportChunkSize
                       THEN Some(total_count) ELSE stream_total

\* after the batch loop: total count, pagination fields, return
Finish(observed) ==
    /\ pc = "finishing"
    /\ result' = SuccessResult
    /\ pc' = "done"
    /\ IF observed THEN WalkStep /\ TotalsStep ELSE UNCHANGED History
    /\ UNCHANGED <<poolVars, planVars, Query, Request, query_rows, fetched, results, chunk_buffer,
                   total_processed, total_count_window, sink_calls, fetches,
                   batch_error>>

(* --------------------- connection pool: SpecPool ----------------------- *)
Threads == 1..MaxThreads

\* Dataset locators: two remote embedded-database files and a local parquet
\* file.  is_url: the locator starts with http:// or https://.
Locators ==
    {[is_url |-> TRUE, name |-> "a", suffix |-> "duckdb"],
     [is_url |-> TRUE, name |-> "b", suffix |-> "duckdb"],
     [is_url |-> FALSE, name |-> "p", suffix |-> "parquet"]}

\* "search": search_streaming, which serves search (collect mode) and
\* streamAll (sink) alike; "distinct": get_distinct_values; "fields":
\* get_available_fields called on its own
Operations == {"search", "distinct", "fields"}

\* self.connection_key: the URL string, or the resolved local path
connection_key(l) == l

\* path.lower().endswith('.duckdb') and path.startswith(('http://', 'https://'))
IsRemoteDuckdb(l) == l.is_url /\ l.suffix = "duckdb"

\* cache_path = DUCKDB_CACHE_ROOT / filename
cache_path(l) == l.name

\* temp_path = cache_path.with_suffix('.download')
temp_path(l) == l.name

\* digest[:12] of md5(connection_key): one identifier per locator
identifier(l) == l.name

\* self._duckdb_alias = f"db_{identifier}"
duckdb_alias(l) == <<"db_", identifier(l)>>

\* self._duckdb_view_name = f"vw_{identifier}"
duckdb_view_name(l) == <<"vw_", identifier(l)>>

\* self.duckdb_table_name = suffix_target.stem
duckdb_table_name(l) == l.name

\* state of the module after import: empty caches, free locks
PoolInit ==
    /\ CONNECTION_CACHE = [k \in Locators |-> None]
    /\ CONNECTION_LOCKS = [k \in Locators |-> None]
    /\ CONNECTION_CACHE_LOCK = 0
    /\ DUCKDB_REMOTE_CACHE = [k \in Locators |-> None]
    /\ DUCKDB_REMOTE_CACHE_LOCK = 0
    /\ cache_files = {}
    /\ temp_files = {}
    /\ lock_holder = [k \in Locators |-> <<>>]
    /\ conn_created = [k \in Locators |-> 0]
    /\ tpc = [t \in Threads |-> "idle"]
    /\ op = [t \in Threads |-> "search"]
    /\ loc = [t \in Threads |-> CHOOSE l \in Locators : ~l.is_url]
    /\ my_conn = [t \in Threads |-> None]
    /\ my_lock = [t \in Threads |-> None]
    /\ local_path = [t \in Threads |-> None]
    /\ materialized = [t \in Threads |-> "none"]
    /\ catalog = [k \in Locators |-> [attached |-> {}, views |-> {}, calls |-> 0]]
    /\ local_files = {l \in Locators : ~l.is_url}
    /\ file_size_mb = [t \in Threads |-> None]

Globals == <<CONNECTION_CACHE, CONNECTION_LOCKS, CONNECTION_CACHE_LOCK,
             DUCKDB_REMOTE_CACHE, DUCKDB_REMOTE_CACHE_LOCK, cache_files,
             temp_files, lock_holder, conn_created>>
Pool == <<CONNECTION_CACHE, CONNECTION_LOCKS, CONNECTION_CACHE_LOCK,
          lock_holder, conn_created>>
Downloads == <<DUCKDB_REMOTE_CACHE, DUCKDB_REMOTE_CACHE_LOCK, cache_files,
               temp_files>>

\* the request is over: its DuckDBProcessor (and what it remembered) is dropped
Discard(t) ==
    /\ tpc' = [tpc EXCEPT ![t] = "idle"]
    /\ op' = [op EXCEPT ![t] = "search"]
    /\ loc' = [loc EXCEPT ![t] = CHOOSE l \in Locators : ~l.is_url]
    /\ my_conn' = [my_conn EXCEPT ![t] = None]
    /\ my_lock' = [my_lock EXCEPT ![t] = None]
    /\ local_path' = [local_path EXCEPT ![t] = None]
    /\ materialized' = [materialized EXCEPT ![t] = "none"]
    /\ file_size_mb' = [file_size_mb EXCEPT ![t] = None]

\* "if not self.file_path.exists()" of a local path in __init__
Exists(l) == l \in local_files

\* A request arrives: DuckDBProcessor(file_path) is constructed and
\* search_streaming (collect or streaming) or get_distinct_values is called.
\* The constructor raises FileNotFoundError for a local path that does not
\* exist.  get_distinct_values resolves the tabular path before taking a
\* connection; get_available_fields takes no connection from the pool and
\* needs the local copy of a remote embedded-database file on a schema-cache
\* miss.
Begin(t, o, l) ==
    /\ tpc[t] = "idle"
    /\ op' = [op EXCEPT ![t] = o]
    /\ loc' = [loc EXCEPT ![t] = l]
    /\ \E schema_miss \in BOOLEAN :
          /\ schema_miss => o = "fields" /\ IsRemoteDuckdb(l)
          /\ tpc' = [tpc EXCEPT ![t] =
                       IF ~l.is_url /\ ~Exists(l) THEN "raised"
                       ELSE IF o = "distinct"
                       THEN (IF IsRemoteDuckdb(l) THEN "pre_ensure" ELSE "get_conn")
                       ELSE IF o = "fields"
                       THEN (IF schema_miss THEN "alone_ensure" ELSE "fields_return")
                       ELSE "get_conn"]
    /\ UNCHANGED <<execVars, planVars, local_files, catalog, Globals, my_conn, my_lock, local_path, materialized, file_size_mb>>

\* "with CONNECTION_CACHE_LOCK:" entered although the lock is held
CacheLockFree_always == TRUE

\* "with CONNECTION_CACHE_LOCK:" can be entered
CacheLockFree == CONNECTION_CACHE_LOCK = 0

\* _get_or_create_connection: take CONNECTION_CACHE_LOCK and look the key up.
\* A hit returns the cached connection and its lock and releases the lock; a
\* miss goes on to create the connection with the lock still held.
EnterConnectionCache(t) ==
    /\ tpc[t] = "get_conn"
    /\ CacheLockFree
    /\ LET key == connection_key(loc[t])
       IN IF CONNECTION_CACHE[key] = None
          THEN /\ CONNECTION_CACHE_LOCK' = t
               /\ tpc' = [tpc EXCEPT ![t] = "creating"]
               /\ UNCHANGED <<my_conn, my_lock>>
          ELSE /\ CONNECTION_CACHE_LOCK' = 0
               /\ my_conn' = [my_conn EXCEPT ![t] = CONNECTION_CACHE[key]]
               /\ my_lock' = [my_lock EXCEPT ![t] = CONNECTION_LOCKS[key]]
               /\ tpc' = [tpc EXCEPT ![t] = "wait_conn_lock"]
    /\ UNCHANGED <<execVars, planVars, local_files, catalog, CONNECTION_CACHE, CONNECTION_LOCKS, lock_holder,
                   conn_created, Downloads, op, loc, local_path, materialized, file_size_mb>>

\* the creating thread keeps CONNECTION_CACHE_LOCK when it goes on to its
\* connection lock
CacheLockAfterCreate_kept(t) == t

\* "return conn, conn_lock" is outside the "with CONNECTION_CACHE_LOCK:" block
CacheLockAfterCreate(t) == 0

\* conn = _create_optimized_connection(); CONNECTION_CACHE[key] = conn;
\* CONNECTION_LOCKS[key] = Lock(); the lock is released on leaving the block
CreateConnection(t) ==
    /\ tpc[t] = "creating"
    /\ LET key == connection_key(loc[t])
           id == conn_created[key] + 1
       IN /\ conn_created' = [conn_created EXCEPT ![key] = id]
          /\ CONNECTION_CACHE' = [CONNECTION_CACHE EXCEPT ![key] = Some(id)]
          /\ CONNECTION_LOCKS' = [CONNECTION_LOCKS EXCEPT ![key] = Some(id)]
          /\ lock_holder' = [lock_holder EXCEPT ![key] = Append(@, 0)]
          /\ my_conn' = [my_conn EXCEPT ![t] = Some(id)]
          /\ my_lock' = [my_lock EXCEPT ![t] = Some(id)]
    /\ CONNECTION_CACHE_LOCK' = CacheLockAfterCreate(t)
    /\ tpc' = [tpc EXCEPT ![t] = "wait_conn_lock"]
    /\ UNCHANGED <<execVars, planVars, local_files, catalog, Downloads, op, loc, local_path, materialized, file_size_mb>>

\* "with conn_lock:" entered although the lock is held
ConnLockFree_always(t) == TRUE

\* "with conn_lock:" can be entered
ConnLockFree(t) == lock_holder[connection_key(loc[t])][my_lock[t][1]] = 0

\* with conn_lock: -- the request runs inside the lock.  search_streaming
\* first measures the file; get_distinct_values goes on to its base relation.
AcquireConnLock(t) ==
    /\ tpc[t] = "wait_conn_lock"
    /\ ConnLockFree(t)
    /\ lock_holder' = [lock_holder EXCEPT ![connection_key(loc[t])][my_lock[t][1]] = t]
    /\ tpc' = [tpc EXCEPT ![t] =
                 IF op[t] = "search" THEN "size"
                 ELSE IF IsRemoteDuckdb(loc[t]) THEN "base_ensure"
                 ELSE "execute"]
    /\ UNCHANGED <<execVars, planVars, local_files, catalog, CONNECTION_CACHE, CONNECTION_LOCKS,
                   CONNECTION_CACHE_LOCK, conn_created, Downloads, op, loc,
                   my_conn, my_lock, local_path, materialized, file_size_mb>>

\* _get_file_size_mb: 100.0 for a URL, else
\* self.file_path.stat().st_size / (1024 * 1024); None: stat() raises
get_file_size_mb(l) ==
    IF l.is_url THEN Some(RemoteFileMB)
    ELSE IF Exists(l) THEN Some(LocalFileMB) ELSE None

\* file_size_mb = self._get_file_size_mb(), the first statement of
\* search_streaming that can fail inside the lock and before the try block:
\* stat() of a local file that is gone raises, the "with conn_lock" block is
\* left and the exception reaches the caller.  Otherwise the request compiles
\* its query: for a remote embedded-database file the base relation needs the
\* local copy, and search_streaming may look the schema up first
\* (_build_where_clause, _build_filter_conditions, _get_essential_columns ->
\* _get_available_fields), which on a schema-cache miss needs the local copy
\* as well.
MeasureSize(t) ==
    /\ tpc[t] = "size"
    /\ IF get_file_size_mb(loc[t]) = None
       THEN /\ lock_holder' = [lock_holder EXCEPT
                                 ![connection_key(loc[t])][my_lock[t][1]] = 0]
            /\ tpc' = [tpc EXCEPT ![t] = "raised"]
            /\ UNCHANGED file_size_mb
       ELSE /\ file_size_mb' = [file_size_mb EXCEPT ![t] = get_file_size_mb(loc[t])]
            /\ \E schema_miss \in BOOLEAN :
                  /\ schema_miss => IsRemoteDuckdb(loc[t])
                  /\ tpc' = [tpc EXCEPT ![t] =
                               IF ~IsRemoteDuckdb(loc[t]) THEN "execute"
                               ELSE IF schema_miss THEN "fields_ensure"
                               ELSE "base_ensure"]
            /\ UNCHANGED lock_holder
    /\ UNCHANGED <<execVars, planVars, local_files, catalog, CONNECTION_CACHE, CONNECTION_LOCKS,
                   CONNECTION_CACHE_LOCK, conn_created, Downloads, op, loc,
                   my_conn, my_lock, local_path, materialized>>

\* get_available_fields returns its column list (cached, introspected on a
\* temporary connection, or [] after a swallowed failure)
FieldsReturn(t) ==
    /\ tpc[t] = "fields_return"
    /\ Discard(t)
    /\ UNCHANGED <<execVars, planVars, local_files, catalog, Globals>>

\* the exception reaches the caller of the request
Raise(t) ==
    /\ tpc[t] = "raised"
    /\ Discard(t)
    /\ UNCHANGED <<execVars, planVars, local_files, catalog, Globals>>

\* call sites of _ensure_local_duckdb_copy in a request:
\*   pre      get_distinct_values -> _resolve_tabular_path, before the connection
\*   fields   search_streaming -> _get_available_fields before the base query
\*            (schema-cache miss), inside conn_lock
\*   base     _build_base_query -> _get_table_expression, inside conn_lock
\*   resolve  search_streaming -> _resolve_tabular_path, inside conn_lock
\*   order    search_streaming -> _get_available_fields after the tabular path
\*            is resolved (schema-cache miss), inside conn_lock
\*   alone    get_available_fields called on its own (schema-cache miss)
EnsurePoints == {"pre_ensure", "fields_ensure", "base_ensure", "resolve_ensure",
                 "order_ensure", "alone_ensure"}
DownloadPoints == {"pre_download", "fields_download", "base_download",
                   "resolve_download", "order_download", "alone_download"}

DownloadPoint(at) ==
    CASE at = "pre_ensure" -> "pre_download"
      [] at = "fields_ensure" -> "fields_download"
      [] at = "order_ensure" -> "order_download"
      [] at = "base_ensure" -> "base_download"
      [] at = "resolve_ensure" -> "resolve_download"
      [] at = "alone_ensure" -> "alone_download"

CallSite(at) ==
    CASE at \in {"pre_ensure", "pre_download"} -> "pre"
      [] at \in {"fields_ensure", "fields_download"} -> "fields"
      [] at \in {"order_ensure", "order_download"} -> "order"
      [] at \in {"base_ensure", "base_download"} -> "base"
      [] at \in {"resolve_ensure", "resolve_download"} -> "resolve"
      [] at \in {"alone_ensure", "alone_download"} -> "alone"

\* after _resolve_tabular_path search_streaming calls _get_available_fields
\* once more (line 1293 or 1300): a schema-cache miss needs the local copy
AfterResolve == {"order_ensure", "execute"}

\* where the request goes on when the failed transfer's error is swallowed:
\* _get_available_fields returns [] (lines 898-900), _resolve_tabular_path
\* returns None inside search_streaming (lines 392-394)
AfterSwallowedFailure(t) ==
    CASE CallSite(tpc[t]) = "fields" -> {"base_ensure"}
      [] CallSite(tpc[t]) = "resolve" -> AfterResolve
      [] CallSite(tpc[t]) = "order" -> {"execute"}
      [] CallSite(tpc[t]) = "alone" -> {"fields_return"}
      [] OTHER -> {}

\* _get_table_expression keeps an earlier self._local_duckdb_path,
\* _resolve_tabular_path overwrites it
LocalPathAfter(t, path) ==
    IF CallSite(tpc[t]) \in {"fields", "base", "order", "alone"} /\ local_path[t] # None
    THEN local_path[t] ELSE Some(path)

\* a second ATTACH under the alias is not tolerated
AlreadyAttachedIgnored_never == FALSE

\* except (duckdb.CatalogException, duckdb.BinderException): pass
AlreadyAttachedIgnored == TRUE

\* _ensure_duckdb_view(conn, path) on a connection with catalog cat: ATTACH
\* path AS alias (the engine rejects an alias that is in use), then CREATE OR
\* REPLACE VIEW view_name AS SELECT * FROM alias."table".  calls counts the
\* calls on the connection, up to MaxCalls.
ensure_duckdb_view(cat, l, path) ==
    LET alias == duckdb_alias(l)
        view_name == duckdb_view_name(l)
        in_use == \E d \in cat.attached : d.alias = alias
        attached == IF in_use THEN cat.attached
                    ELSE cat.attached \cup {[alias |-> alias, path |-> path]}
        view == [name |-> view_name, alias |-> alias,
                 table |-> duckdb_table_name(l), columns |-> "*"]
        calls == IF cat.calls < MaxCalls THEN cat.calls + 1 ELSE cat.calls
    IN IF in_use /\ ~AlreadyAttachedIgnored
       THEN [raised |-> TRUE, view_name |-> view_name,
             catalog |-> [cat EXCEPT !.calls = calls]]
       ELSE [raised |-> FALSE, view_name |-> view_name,
             catalog |-> [attached |-> attached,
                          views |-> {v \in cat.views : v.name # view_name}
                                    \cup {view},
                          calls |-> calls]]

\* _get_table_expression on the pooled connection (call site "base"): the
\* view is ensured once the local copy is there.  The other call sites only
\* need the copy, or ensure the view on a temporary connection.
CatalogAfter(t, path) ==
    IF CallSite(tpc[t]) = "base"
    THEN [catalog EXCEPT ![connection_key(loc[t])] =
             ensure_duckdb_view(@, loc[t], path).catalog]
    ELSE catalog

\* where the request may go on once the local copy is there; an exception of
\* _ensure_duckdb_view ends it with the error returned or raised at "fetch"
AfterEnsure(t, path) ==
    IF /\ CallSite(tpc[t]) = "base"
       /\ ensure_duckdb_view(catalog[connection_key(loc[t])], loc[t], path).raised
    THEN {"fetch"}
    ELSE CASE CallSite(tpc[t]) = "pre" -> {"get_conn"}
           [] CallSite(tpc[t]) = "fields" -> {"base_ensure"}
           [] CallSite(tpc[t]) = "base" ->
                 (IF op[t] = "distinct" THEN {"execute"} ELSE {"resolve_ensure"})
           [] CallSite(tpc[t]) = "resolve" -> AfterResolve
           [] CallSite(tpc[t]) = "order" -> {"execute"}
           [] CallSite(tpc[t]) = "alone" -> {"fields_return"}

\* "cached and cached.exists()"
CachedCopyExists(url) ==
    /\ DUCKDB_REMOTE_CACHE[url] # None
    /\ DUCKDB_REMOTE_CACHE[url][1] \in cache_files

\* "with DUCKDB_REMOTE_CACHE_LOCK:" entered although the lock is held
RemoteLockFree_always == TRUE

\* "with DUCKDB_REMOTE_CACHE_LOCK:" can be entered
RemoteLockFree == DUCKDB_REMOTE_CACHE_LOCK = 0

\* _ensure_local_duckdb_copy: take DUCKDB_REMOTE_CACHE_LOCK; a cached copy
\* that still exists is returned at once, otherwise the transfer starts with
\* the lock held.
EnsureEnter(t) ==
    /\ tpc[t] \in EnsurePoints
    /\ RemoteLockFree
    /\ IF CachedCopyExists(loc[t])
       THEN /\ DUCKDB_REMOTE_CACHE_LOCK' = 0
            /\ local_path' = [local_path EXCEPT
                                ![t] = LocalPathAfter(t, DUCKDB_REMOTE_CACHE[loc[t]][1])]
            /\ materialized' = [materialized EXCEPT ![t] = "cached"]
            /\ \E nxt \in AfterEnsure(t, DUCKDB_REMOTE_CACHE[loc[t]][1]) :
                  tpc' = [tpc EXCEPT ![t] = nxt]
            /\ catalog' = CatalogAfter(t, DUCKDB_REMOTE_CACHE[loc[t]][1])
            /\ UNCHANGED temp_files
       ELSE /\ DUCKDB_REMOTE_CACHE_LOCK' = t
            /\ temp_files' = temp_files \cup {temp_path(loc[t])}
            /\ tpc' = [tpc EXCEPT ![t] = DownloadPoint(tpc[t])]
            /\ UNCHANGED <<local_path, materialized, catalog>>
    /\ UNCHANGED <<execVars, planVars, local_files, Pool, DUCKDB_REMOTE_CACHE, cache_files, op, loc,
                   my_conn, my_lock, file_size_mb>>

\* the transfer completes: os.replace(temp_path, cache_path);
\* DUCKDB_REMOTE_CACHE[source_url] = cache_path; return cache_path
DownloadOk(t) ==
    /\ tpc[t] \in DownloadPoints
    /\ cache_files' = cache_files \cup {cache_path(loc[t])}
    /\ temp_files' = temp_files \ {temp_path(loc[t])}
    /\ DUCKDB_REMOTE_CACHE' = [DUCKDB_REMOTE_CACHE EXCEPT
                                 ![loc[t]] = Some(cache_path(loc[t]))]
    /\ DUCKDB_REMOTE_CACHE_LOCK' = 0
    /\ local_path' = [local_path EXCEPT ![t] = LocalPathAfter(t, cache_path(loc[t]))]
    /\ materialized' = [materialized EXCEPT ![t] = "downloaded"]
    /\ \E nxt \in AfterEnsure(t, cache_path(loc[t])) : tpc' = [tpc EXCEPT ![t] = nxt]
    /\ catalog' = CatalogAfter(t, cache_path(loc[t]))
    /\ UNCHANGED <<execVars, planVars, local_files, Pool, op, loc, my_conn, my_lock, file_size_mb>>

\* the transfer fails: the temp file is unlinked and RuntimeError leaves the
\* "with" block.  At "pre" _resolve_tabular_path swallows it and
\* get_distinct_values raises ValueError; at "base" it ends the request
\* (error result of search_streaming, exception of get_distinct_values) and
\* conn_lock is released on the way out; at "fields", "resolve" and "order"
\* it is swallowed and search_streaming goes on; at "alone" it is swallowed
\* and get_available_fields returns [].
DownloadFail(t) ==
    /\ tpc[t] \in DownloadPoints
    /\ temp_files' = temp_files \ {temp_path(loc[t])}
    /\ DUCKDB_REMOTE_CACHE_LOCK' = 0
    /\ IF AfterSwallowedFailure(t) # {}
       THEN /\ \E nxt \in AfterSwallowedFailure(t) : tpc' = [tpc EXCEPT ![t] = nxt]
            /\ UNCHANGED <<op, loc, my_conn, my_lock, local_path, materialized, file_size_mb>>
       ELSE Discard(t)
    /\ lock_holder' = IF CallSite(tpc[t]) = "base"
                      THEN [lock_holder EXCEPT ![connection_key(loc[t])][my_lock[t][1]] = 0]
                      ELSE lock_holder
    /\ UNCHANGED <<execVars, planVars, local_files, catalog, CONNECTION_CACHE, CONNECTION_LOCKS,
                   CONNECTION_CACHE_LOCK, conn_created, DUCKDB_REMOTE_CACHE,
                   cache_files>>

\* conn.execute(...) on the pooled connection
RunStatement(t) ==
    /\ tpc[t] = "execute"
    /\ tpc' = [tpc EXCEPT ![t] = "fetch"]
    /\ UNCHANGED <<execVars, planVars, local_files, catalog, Globals, op, loc, my_conn, my_lock, local_path,
                   materialized, file_size_mb>>

\* the sink is called after the "with conn_lock" block was left
HeldDuringSink_released(t) ==
    [lock_holder EXCEPT ![connection_key(loc[t])][my_lock[t][1]] = 0]

\* the batch loop and its sink calls are inside the "with conn_lock" block
HeldDuringSink(t) == lock_holder

\* search_streaming in streaming mode: chunk_callback(chunk_buffer.copy(),
\* total_processed) is called from the batch loop or the trailing flush
CallSink(t) ==
    /\ tpc[t] = "fetch"
    /\ op[t] = "search"
    /\ tpc' = [tpc EXCEPT ![t] = "sink"]
    /\ lock_holder' = HeldDuringSink(t)
    /\ UNCHANGED <<execVars, planVars, local_files, catalog, CONNECTION_CACHE, CONNECTION_LOCKS,
                   CONNECTION_CACHE_LOCK, conn_created, Downloads, op, loc, my_conn,
                   my_lock, local_path, materialized, file_size_mb>>

\* the sink returns, or it raises and "except Exception as batch_error"
\* leaves the loop: either way the request goes on inside the lock
SinkReturns(t) ==
    /\ tpc[t] = "sink"
    /\ tpc' = [tpc EXCEPT ![t] = "fetch"]
    /\ UNCHANGED <<execVars, planVars, local_files, catalog, Globals, op, loc, my_conn, my_lock,
                   local_path, materialized, file_size_mb>>

\* the rows are fetched (fetchall, or the fetchmany loop), the result or
\* error is returned and the "with conn_lock" block is left
Return(t) ==
    /\ tpc[t] = "fetch"
    /\ lock_holder' = [lock_holder EXCEPT ![connection_key(loc[t])][my_lock[t][1]] = 0]
    /\ Discard(t)
    /\ UNCHANGED <<execVars, planVars, local_files, catalog, CONNECTION_CACHE, CONNECTION_LOCKS,
                   CONNECTION_CACHE_LOCK, conn_created, Downloads>>

\* the environment removes a file from /tmp/datapage_duckdb_cache
RemoveCachedFile(f) ==
    /\ f \in cache_files
    /\ cache_files' = cache_files \ {f}
    /\ UNCHANGED <<execVars, planVars, local_files, catalog, Pool, DUCKDB_REMOTE_CACHE, DUCKDB_REMOTE_CACHE_LOCK,
                   temp_files, tpc, op, loc, my_conn, my_lock, local_path, materialized, file_size_mb>>

\* the environment removes a local data file
RemoveLocalFile(l) ==
    /\ l \in local_files
    /\ local_files' = local_files \ {l}
    /\ UNCHANGED <<execVars, planVars, catalog, Globals, tpc, op, loc, my_conn, my_lock, local_path,
                   materialized, file_size_mb>>

\* positions inside the "with conn_lock:" block
InConnLock(t) ==
    tpc[t] \in {"size", "fields_ensure", "fields_download", "base_ensure",
                "base_download", "resolve_ensure", "resolve_download",
                "order_ensure", "order_download", "execute", "fetch", "sink"}

\* the steps of thread t's request once it has begun
ThreadStep(t) ==
    \/ EnterConnectionCache(t)
    \/ CreateConnection(t)
    \/ AcquireConnLock(t)
    \/ MeasureSize(t)
    \/ EnsureEnter(t)
    \/ DownloadOk(t)
    \/ DownloadFail(t)
    \/ RunStatement(t)
    \/ CallSink(t)
    \/ SinkReturns(t)
    \/ Return(t)
    \/ FieldsReturn(t)
    \/ Raise(t)

PoolNext ==
    \/ \E t \in Threads, o \in Operations, l \in Locators : Begin(t, o, l)
    \/ \E t \in Threads : EnterConnectionCache(t)
    \/ \E t \in Threads : CreateConnection(t)
    \/ \E t \in Threads : AcquireConnLock(t)
    \/ \E t \in Threads : MeasureSize(t)
    \/ \E t \in Threads : Raise(t)
    \/ \E t \in Threads : FieldsReturn(t)
    \/ \E l \in Locators : RemoveLocalFile(l)
    \/ \E t \in Threads : EnsureEnter(t)
    \/ \E t \in Threads : DownloadOk(t)
    \/ \E t \in Threads : DownloadFail(t)
    \/ \E t \in Threads : RunStatement(t)
    \/ \E t \in Threads : CallSink(t)
    \/ \E t \in Threads : SinkReturns(t)
    \/ \E t \in Threads : Return(t)
    \/ \E f \in {cache_path(l) : l \in Locators} : RemoveCachedFile(f)

(* --------------------- schema resolver: SpecSchema --------------------- *)
\* Locators of the schema resolver.  cache_key is the URL (host and path),
\* file_name its last path segment (_extract_file_name); is_duckdb_blob:
\* the URL ends in '.duckdb' and contains 'blob'.
SchemaLocators ==
    {[host |-> "r2", file_name |-> "1_safetykorea_flattened.parquet",
      is_duckdb_blob |-> FALSE],
     [host |-> "r2-new", file_name |-> "1_safetykorea_flattened.parquet",
      is_duckdb_blob |-> FALSE],
     [host |-> "r2", file_name |-> "3_efficiency_flattened.parquet",
      is_duckdb_blob |-> FALSE],
     [host |-> "blob", file_name |-> "10_safetykoreachild_flattened.duckdb",
      is_duckdb_blob |-> TRUE]}

\* file_name.lower() as the sequence of its pieces, cut wherever a pattern of
\* dataset_patterns or a marker can begin or end inside the name
Tokens(file_name) ==
    CASE file_name = "safetykorea.duckdb" -> <<"safetykorea", ".duckdb">>
      [] file_name = "10_safetykoreachild_flattened.duckdb" ->
            <<"10_", "safetykorea", "child", "_flattened", ".duckdb">>
      [] file_name = "4_high_efficiency_flattened.duckdb" ->
            <<"4_", "high_", "efficiency", "_flattened", ".duckdb">>
      [] OTHER -> <<file_name>>

\* text occurs in value: Python's "text in value", the engine's LIKE '%text%'
IsSubstring(text, value) ==
    \E i \in 0..(Len(value) - Len(text)) :
        SubSeq(value, i + 1, i + Len(text)) = text

\* the dictionary of datasets and their filename patterns, in its order
dataset_patterns ==
    <<[dataset |-> "safetykorea",
       patterns |-> << <<"safetykorea">>, <<"safety_korea">> >>],
      [dataset |-> "wadiz", patterns |-> << <<"wadiz">>, <<"makers">> >>],
      [dataset |-> "efficiency", patterns |-> << <<"efficiency">>, <<"energy">> >>],
      [dataset |-> "high_efficiency",
       patterns |-> << <<"high_", "efficiency">>, <<"high-efficiency">> >>],
      [dataset |-> "standby_power",
       patterns |-> << <<"standby_power">>, <<"standby-power">> >>],
      [dataset |-> "approval", patterns |-> << <<"approval">>, <<"approve">> >>],
      [dataset |-> "declare", patterns |-> << <<"declare">>, <<"declaration">> >>],
      [dataset |-> "kwtc", patterns |-> << <<"kwtc">> >>],
      [dataset |-> "recall", patterns |-> << <<"recall">> >>],
      [dataset |-> "safetykoreachild",
       patterns |-> << <<"safetykorea", "child">>, <<"safety_korea_child">>,
                       <<"child">> >>],
      [dataset |-> "rra_cert", patterns |-> << <<"rra_cert">>, <<"rra-cert">> >>],
      [dataset |-> "rra_self_cert",
       patterns |-> << <<"rra_self_cert">>, <<"rra-self-cert">> >>],
      [dataset |-> "safetykoreahome",
       patterns |-> << <<"safetykorea", "home">>, <<"safety_korea_home">>,
                       <<"home">> >>]>>

\* the first dataset of the dictionary with a pattern in the file name
matched_dataset(file_name) ==
    LET hits == {i \in DOMAIN dataset_patterns :
                    \E j \in DOMAIN dataset_patterns[i].patterns :
                        IsSubstring(dataset_patterns[i].patterns[j], Tokens(file_name))}
    IN IF hits = {} THEN None
       ELSE Some(dataset_patterns[CHOOSE i \in hits : \A j \in hits : i <= j].dataset)

\* the DataA schema file of a dataset
base_target(name) ==
    CASE name = "wadiz" -> "2_wadiz_flattened.parquet"
      [] name = "safetykorea" -> "1_safetykorea_flattened.parquet"
      [] name = "efficiency" -> "3_efficiency_flattened.parquet"
      [] name = "high_efficiency" -> "4_high_efficiency_flattened.parquet"
      [] name = "standby_power" -> "5_standby_power_flattened.parquet"
      [] name = "approval" -> "6_approval_flattened.parquet"
      [] name = "declare" -> "7_declare_flattened.parquet"
      [] name = "kwtc" -> "8_kwtc_flattened.parquet"
      [] name = "recall" -> "9_recall_flattened.parquet"
      [] name = "safetykoreachild" -> "10_safetykoreachild_flattened.parquet"
      [] name = "rra_cert" -> "11_rra_cert_flattened.parquet"
      [] name = "rra_self_cert" -> "12_rra_self_cert_flattened.parquet"
      [] name = "safetykoreahome" -> "13_safetykoreahome_flattened.parquet"

\* target_r2_patterns of _try_duckdb_blob_schema_mapping: the enhanced schema
\* file first when the name carries a marker (is_enhanced: 'enhanced',
\* 'success' or 'failed' in file_name_lower), then the DataA schema file;
\* empty when the locator is no embedded-database blob or no pattern matches
target_r2_patterns(l) ==
    IF ~l.is_duckdb_blob \/ matched_dataset(l.file_name) = None THEN <<>>
    ELSE LET name == matched_dataset(l.file_name)[1]
             is_enhanced == \E marker \in {"enhanced", "success", "failed"} :
                                IsSubstring(<<marker>>, Tokens(l.file_name))
             is_success == IsSubstring(<<"success">>, Tokens(l.file_name))
         IN (IF ~is_enhanced THEN <<>>
             ELSE IF is_success
             THEN <<name \o "_flattened_success.parquet">>
             ELSE <<name \o "_flattened_failed.parquet">>)
            \o <<base_target(name)>>

FileNames ==
    {l.file_name : l \in SchemaLocators}
    \cup UNION {{target_r2_patterns(l)[i] : i \in 1..Len(target_r2_patterns(l))} :
                  l \in SchemaLocators}

dynamic_targets ==
    {"3_efficiency_flattened.parquet", "3_efficiency_flattened_success.parquet",
     "3_efficiency_flattened_failed.parquet", "4_high_efficiency_flattened.parquet",
     "4_high_efficiency_flattened_success.parquet",
     "4_high_efficiency_flattened_failed.parquet",
     "5_standby_power_flattened.parquet", "5_standby_power_flattened_success.parquet",
     "5_standby_power_flattened_failed.parquet"}

\* _should_use_dynamic_schema(cache_key, file_name): the file name is a dynamic
\* target, or the URL contains "/<dynamic target>" (its last segment here)
should_use_dynamic_schema_never(l) == FALSE

should_use_dynamic_schema(l) == l.file_name \in dynamic_targets

\* the first alias target present in SCHEMA_CACHE_BY_FILENAME, 0 if none
AliasHit(l) ==
    LET hits == {i \in 1..Len(target_r2_patterns(l)) :
                    SCHEMA_CACHE_BY_FILENAME[target_r2_patterns(l)[i]] # None}
    IN IF hits # {}
       THEN CHOOSE i \in hits : \A j \in hits : i <= j
       ELSE 0

SchemaInit ==
    /\ SCHEMA_CACHE_BY_URL = [l \in SchemaLocators |-> None]
    /\ SCHEMA_CACHE_BY_FILENAME = [f \in FileNames |-> None]
    /\ spc = [t \in Threads |-> "idle"]
    /\ sloc = [t \in Threads |-> None]
    /\ temp_conn = [t \in Threads |-> FALSE]
    /\ returned = [fields |-> <<>>, source |-> "none"]
    /\ lookups = [l \in SchemaLocators |-> 0]
    /\ introspections = [l \in SchemaLocators |-> 0]
    /\ served = [l \in SchemaLocators |-> FALSE]

\* the value _get_available_fields returns
Returns(t, l, fields, source) ==
    /\ returned' = [fields |-> fields, source |-> source]
    /\ lookups' = [lookups EXCEPT ![l] = @ + 1]
    /\ served' = [served EXCEPT ![l] = @ \/ source # "failed"]
    /\ spc' = [spc EXCEPT ![t] = "idle"]
    /\ sloc' = [sloc EXCEPT ![t] = None]

\* which cache serves a non-dynamic locator: by_url before by_filename, then
\* the alias lookup; "miss" when none does
CacheSource_ignored(l) == "miss"

CacheSource(l) ==
    IF SCHEMA_CACHE_BY_URL[l] # None THEN "by_url"
    ELSE IF SCHEMA_CACHE_BY_FILENAME[l.file_name] # None THEN "by_filename"
    ELSE IF AliasHit(l) # 0 THEN "alias"
    ELSE "miss"

\* _get_available_fields up to the creation of the introspection connection
\* (conn = _create_optimized_connection(): the fallback path is taken).
\* Calls on one locator are made inside its conn_lock, one at a time.
LookupSchema(t, l) ==
    /\ spc[t] = "idle"
    /\ lookups[l] < MaxCalls
    /\ \A u \in Threads : sloc[u] # Some(l)
    /\ IF should_use_dynamic_schema(l) \/ CacheSource(l) = "miss"
       THEN /\ spc' = [spc EXCEPT ![t] = "introspecting"]
            /\ temp_conn' = [temp_conn EXCEPT ![t] = TRUE]
            /\ sloc' = [sloc EXCEPT ![t] = Some(l)]
            /\ UNCHANGED <<SCHEMA_CACHE_BY_URL, SCHEMA_CACHE_BY_FILENAME, returned,
                           lookups, served>>
       ELSE /\ CASE CacheSource(l) = "by_url" ->
                      /\ Returns(t, l, SCHEMA_CACHE_BY_URL[l][1], "by_url")
                      /\ UNCHANGED <<SCHEMA_CACHE_BY_URL, SCHEMA_CACHE_BY_FILENAME>>
                 [] CacheSource(l) = "by_filename" ->
                      /\ Returns(t, l, SCHEMA_CACHE_BY_FILENAME[l.file_name][1],
                                 "by_filename")
                      /\ UNCHANGED <<SCHEMA_CACHE_BY_URL, SCHEMA_CACHE_BY_FILENAME>>
                 [] CacheSource(l) = "alias" ->
                      LET schema ==
                            SCHEMA_CACHE_BY_FILENAME[target_r2_patterns(l)[AliasHit(l)]][1]
                      IN /\ SCHEMA_CACHE_BY_URL' =
                               [SCHEMA_CACHE_BY_URL EXCEPT ![l] = Some(schema)]
                         /\ SCHEMA_CACHE_BY_FILENAME' =
                               IF SCHEMA_CACHE_BY_FILENAME[l.file_name] = None
                               THEN [SCHEMA_CACHE_BY_FILENAME EXCEPT
                                       ![l.file_name] = Some(schema)]
                               ELSE SCHEMA_CACHE_BY_FILENAME
                         /\ Returns(t, l, schema, "alias")
            /\ UNCHANGED temp_conn
    /\ UNCHANGED <<execVars, poolVars, compileVars, introspections>>

ClosedConn_leaked(t) == temp_conn

\* finally: conn.close()
ClosedConn(t) == [temp_conn EXCEPT ![t] = FALSE]

\* the introspection query succeeds: return self._cache_schema(columns), which
\* sets SCHEMA_CACHE_BY_URL[cache_key] and SCHEMA_CACHE_BY_FILENAME[file_name]
\* unless the locator is a dynamic-schema target
IntrospectOk(t, columns) ==
    /\ spc[t] = "introspecting"
    /\ IF should_use_dynamic_schema(sloc[t][1])
       THEN UNCHANGED <<SCHEMA_CACHE_BY_URL, SCHEMA_CACHE_BY_FILENAME>>
       ELSE /\ SCHEMA_CACHE_BY_URL' =
                  [SCHEMA_CACHE_BY_URL EXCEPT ![sloc[t][1]] = Some(columns)]
            /\ SCHEMA_CACHE_BY_FILENAME' =
                  [SCHEMA_CACHE_BY_FILENAME EXCEPT
                     ![sloc[t][1].file_name] = Some(columns)]
    /\ temp_conn' = ClosedConn(t)
    /\ introspections' = [introspections EXCEPT ![sloc[t][1]] = @ + 1]
    /\ Returns(t, sloc[t][1], columns, "introspection")
    /\ UNCHANGED <<execVars, poolVars, compileVars>>

\* the introspection raises: the connection is closed, the exception is
\* logged and [] is returned
IntrospectFail(t) ==
    /\ spc[t] = "introspecting"
    /\ temp_conn' = ClosedConn(t)
    /\ introspections' = [introspections EXCEPT ![sloc[t][1]] = @ + 1]
    /\ Returns(t, sloc[t][1], <<>>, "failed")
    /\ UNCHANGED <<execVars, poolVars, compileVars, SCHEMA_CACHE_BY_URL,
                   SCHEMA_CACHE_BY_FILENAME>>

SchemaNext ==
    \/ \E t \in Threads, l \in SchemaLocators : LookupSchema(t, l)
    \/ \E t \in Threads, columns \in {<<"maker_name">>, <<"maker_name", "cert_date">>} :
          IntrospectOk(t, columns)
    \/ \E t \in Threads : IntrospectFail(t)

(* --------------------- query compiler: SpecCompile --------------------- *)
\* Keywords and stored values are strings the compiler and the engine inspect
\* character by character: sequences of letters.  Column names are atoms;
\* the names the source writes in Hangul are romanised.
Keywords == UNION {[1..n -> {"A", "a", "-", " "}] : n \in 0..MaxKeywordLen}

Contains(s, x) == \E i \in DOMAIN s : s[i] = x

Elements(list) == {list[i] : i \in DOMAIN list}

\* str.lower()
lower(s) == [i \in DOMAIN s |-> IF s[i] = "A" THEN "a" ELSE s[i]]

\* str.replace(ch, ''), and the engine's REPLACE(value, ch, '')
replace(s, ch) == LET keep(c) == c # ch IN SelectSeq(s, keep)

\* columns a dataset can have, in file order
ColumnOrder ==
    <<"maker_name", "entrprsNm", "company_name", "cert_no", "business_number",
      "cert_date", "importer", "price">>
CompileSchemas ==
    {LET present(c) == c \in S IN SelectSeq(ColumnOrder, present) :
        S \in SUBSET {ColumnOrder[i] : i \in DOMAIN ColumnOrder}}

SearchFields ==
    {"company_name", "model_name", "product_name", "maker_name", "cert_no",
     "business_number", "ftc_business_number", "all"}

\* case_sensitivity_config.json.  The first is the built-in fallback of
\* load_case_sensitivity_config; the second marks other fields.
CaseConfigs ==
    {[case_insensitive_fields |->
         [f \in {"eopchemyeong", "jepummyeong", "company_name", "product_name"} |-> TRUE],
      case_sensitive_fields |->
         [f \in {"injeungbeonho", "modelmyeong", "certification_no", "model_name"} |-> FALSE],
      default_case_insensitive |-> FALSE],
     [case_insensitive_fields |->
         [f \in {"maker_name", "cert_no"} |-> f = "cert_no"],
      case_sensitive_fields |->
         [f \in {"entrprsNm", "company_name"} |-> f = "company_name"],
      default_case_insensitive |-> TRUE]}

\* _is_field_case_insensitive
is_field_case_insensitive(case_config, field_name) ==
    IF field_name \in DOMAIN case_config.case_insensitive_fields
    THEN case_config.case_insensitive_fields[field_name]
    ELSE IF field_name \in DOMAIN case_config.case_sensitive_fields
    THEN ~case_config.case_sensitive_fields[field_name]
    ELSE case_config.default_case_insensitive

\* a bound LIKE parameter '%text%' is [wild |-> TRUE, text], a plain parameter
\* [wild |-> FALSE, text]
Pattern(text) == [wild |-> TRUE, text |-> text]
Literal(text) == [wild |-> FALSE, text |-> text]

\* _get_search_pattern_and_operator
get_search_pattern_and_operator_like(keyword, field) == <<Pattern(keyword), "LIKE">>

get_search_pattern_and_operator(keyword, field) ==
    IF field \in {"cert_no", "cert_num", "declare_no", "singobeonho", "seunginbeonho"}
    THEN <<Literal(keyword), "=">>
    ELSE <<Pattern(keyword), "LIKE">>

exact_match_fields == {"business_number", "saeopjadeungnokbeonho", "ftc_business_number"}

field_mappings ==
    [f \in {"company_name", "model_name", "product_name"} |->
        CASE f = "company_name" ->
               <<"eopchemyeong", "maker_name", "entrprsNm", "sangho_beopinmyeong",
                 "saeopjamyeong">>
          [] f = "model_name" -> <<"modelmyeong", "model_name">>
          [] f = "product_name" ->
               <<"jepummyeong", "product_name", "prductNm", "pummongmyeong">>]

\* the fields of target_fields that are in the schema, else the raw field
existing_fields_first_only(search_field) ==
    LET target_fields == IF search_field \in DOMAIN field_mappings
                         THEN field_mappings[search_field] ELSE <<search_field>>
        present(f) == Contains(available_fields, f)
        existing == SelectSeq(target_fields, present)
    IN IF existing # <<>> THEN <<existing[1]>>
       ELSE IF Contains(available_fields, search_field) THEN <<search_field>>
       ELSE <<>>

existing_fields(search_field) ==
    LET target_fields == IF search_field \in DOMAIN field_mappings
                         THEN field_mappings[search_field] ELSE <<search_field>>
        present(f) == Contains(available_fields, f)
        existing == SelectSeq(target_fields, present)
    IN IF existing # <<>> THEN existing
       ELSE IF Contains(available_fields, search_field) THEN <<search_field>>
       ELSE <<>>

\* one condition of a predicate: column, operator, and the functions wrapped
\* around the column (LOWER, or the two REPLACEs that drop '-' and ' ')
Condition(column, operator, lowered, stripped) ==
    [column |-> column, operator |-> operator, lowered |-> lowered,
     stripped |-> stripped]

\* the same without the lower-casing of the keyword
SearchCondition_unfolded(keyword, field, case_config) ==
    LET is_case_insensitive == is_field_case_insensitive(case_config, field)
        po == get_search_pattern_and_operator(keyword, field)
    IN [condition |-> Condition(field, po[2],
                                is_case_insensitive /\ po[2] = "LIKE", FALSE),
        parameter |-> po[1]]

\* the condition and parameter of one searched field (lines 1013-1044)
SearchCondition(keyword, field, case_config) ==
    LET is_case_insensitive == is_field_case_insensitive(case_config, field)
        po == get_search_pattern_and_operator(keyword, field)
        operator == po[2]
        search_pattern == IF is_case_insensitive /\ operator = "LIKE"
                          THEN Pattern(lower(keyword)) ELSE po[1]
    IN [condition |-> Condition(field, operator,
                                is_case_insensitive /\ operator = "LIKE", FALSE),
        parameter |-> search_pattern]

\* _build_where_clause: [where_clause, conditions, parameters, existing_fields,
\* dynamic_required_fields]; where_clause is "1=1", "1=0" or "OR" (the
\* conditions joined by OR)
build_where_clause(keyword, search_field, case_config) ==
    IF keyword = <<>>
    THEN [where_clause |-> "1=1", conditions |-> <<>>, parameters |-> <<>>,
          existing_fields |-> <<>>,
          dynamic_required_fields |-> dynamic_required_fields]
    ELSE IF search_field \in exact_match_fields
    THEN LET cleaned_keyword == replace(replace(keyword, "-"), " ")
             field_aliases ==
                 <<search_field>>
                 \o (IF search_field = "business_number"
                     THEN <<"ftc_business_number">> ELSE <<>>)
                 \o (IF search_field = "ftc_business_number"
                     THEN <<"business_number">> ELSE <<>>)
             present(f) == Contains(available_fields, f)
             fields == SelectSeq(field_aliases, present)
         IN [where_clause |-> IF fields # <<>> THEN "OR" ELSE "1=0",
             conditions |-> [i \in DOMAIN fields |->
                                Condition(fields[i], "=", FALSE, TRUE)],
             parameters |-> [i \in DOMAIN fields |-> Literal(cleaned_keyword)],
             existing_fields |-> <<>>,
             dynamic_required_fields |-> dynamic_required_fields]
    ELSE LET fields == existing_fields(search_field)
             sc(i) == SearchCondition(keyword, fields[i], case_config)
             \* the loop at 1057-1061 adds the fields not yet required
             new(c) == ~Contains(dynamic_required_fields, c)
         IN [where_clause |-> IF fields # <<>> THEN "OR" ELSE "1=1",
             conditions |-> [i \in DOMAIN fields |-> sc(i).condition],
             parameters |-> [i \in DOMAIN fields |-> sc(i).parameter],
             existing_fields |-> fields,
             dynamic_required_fields |->
                 dynamic_required_fields \o SelectSeq(fields, new)]

\* the engine: the value of a column against one condition and its parameter
ConditionMatches(condition, parameter, value) ==
    LET v1 == IF condition.lowered THEN lower(value) ELSE value
        v == IF condition.stripped THEN replace(replace(v1, "-"), " ") ELSE v1
    IN IF condition.operator = "LIKE"
       THEN IsSubstring(parameter.text, v)
       ELSE v = parameter.text

CompileAtRest ==
    /\ available_fields = <<>>
    /\ dynamic_required_fields = <<>>
    /\ cpc = "new"
    /\ compiled = [op |-> "none"]
    /\ query = [op |-> "off"]

\* the local variables of _execute_query after one more statement
Local(name, value) ==
    IF query.op = "off" THEN query
    ELSE [k \in DOMAIN query \cup {name} |->
             IF k = name THEN value ELSE IF k = "op" THEN name ELSE query[k]]

\* search_streaming line 1277
BuildWhereClause(keyword, search_field, case_config) ==
    /\ cpc = "new"
    /\ LET r == build_where_clause(keyword, search_field, case_config)
       IN /\ compiled' = [op |-> "where", keyword |-> keyword,
                          search_field |-> search_field,
                          case_config |-> case_config,
                          where_clause |-> r.where_clause,
                          conditions |-> r.conditions,
                          parameters |-> r.parameters,
                          existing_fields |-> r.existing_fields]
          /\ dynamic_required_fields' = r.dynamic_required_fields
          /\ query' = Local("where", [keyword |-> keyword,
                                      search_field |-> search_field,
                                      where_clause |-> r.where_clause,
                                      conditions |-> r.conditions,
                                      parameters |-> r.parameters])
    /\ cpc' = "where"
    /\ UNCHANGED <<execVars, poolVars, schemaVars, available_fields>>

\* filters of a request: each key is absent (None) or present with a value.
\* date_range and numeric_range record which bounds are given; the bound
\* values themselves are only bound as parameters.
NoFilters ==
    [date_range |-> None, certification_type |-> None, company_type |-> None,
     exclude_keywords |-> None, numeric_range |-> None]

FilterKinds == DOMAIN NoFilters

FilterValues ==
    [date_range |-> <<Some([start |-> TRUE, end |-> TRUE]),
                      Some([start |-> TRUE, end |-> FALSE])>>,
     certification_type |-> <<Some(<<"KC">>), Some(<<>>)>>,
     company_type |-> <<Some(<<"manufacturer", "importer">>), Some(<<>>)>>,
     exclude_keywords |-> <<Some(<< <<"A">> >>)>>,
     numeric_range |-> <<Some([field |-> None, min |-> TRUE, max |-> TRUE]),
                         Some([field |-> Some("cert_no"), min |-> TRUE,
                               max |-> FALSE])>>]

\* no filter, all five, all but one, and every single filter with each value
FilterInputs ==
    {[k \in FilterKinds |-> IF k \in present THEN FilterValues[k][1] ELSE None] :
        present \in {{}, FilterKinds} \cup {FilterKinds \ {k} : k \in FilterKinds}}
    \cup UNION {{[NoFilters EXCEPT ![k] = FilterValues[k][i]] :
                    i \in DOMAIN FilterValues[k]} : k \in FilterKinds}

date_columns ==
    <<"injeungilja", "injeungbyeongyeongilja", "seomyeongilja",
      "injeungmanryoilja", "wanryoil", "deungnogilja", "date", "cert_date">>
cert_columns ==
    <<"injeungbeonho", "certification_no", "license_no", "cert_no",
      "registration_no">>
importer_columns ==
    <<"suipja", "importer", "import_company", "importerName", "suipeopche">>
product_columns ==
    <<"jepummyeong", "product_name", "prductNm", "pummongmyeong",
      "gijajaemyeongching">>
company_columns ==
    <<"eopchemyeong", "company_name", "entrprsNm", "sangho_beopinmyeong",
      "saeopjamyeong", "maker_name">>

\* the first column of a priority list that is in the schema, or None
FirstExisting(columns) ==
    LET present(c) == Contains(available_fields, c)
        existing == SelectSeq(columns, present)
    IN IF existing = <<>> THEN None ELSE Some(existing[1])

\* one clause of the filter predicate and the parameters it binds
Clause(kind, columns, operator, parameters) ==
    [kind |-> kind, columns |-> columns, operator |-> operator,
     parameters |-> parameters]

DateClauses(date_range) ==
    LET existing_date_column == FirstExisting(date_columns)
    IN IF existing_date_column = None THEN <<>>
       ELSE (IF date_range.start
             THEN <<Clause("date_range", existing_date_column, ">=", <<"start">>)>>
             ELSE <<>>)
            \o (IF date_range.end
                THEN <<Clause("date_range", existing_date_column, "<=", <<"end">>)>>
                ELSE <<>>)

CertificationClauses(cert_types) ==
    LET existing_cert_column == FirstExisting(cert_columns)
    IN IF cert_types = <<>> \/ existing_cert_column = None THEN <<>>
       ELSE <<Clause("certification_type", existing_cert_column, "RLIKE ANY",
                     cert_types)>>

CompanyClauses(company_types) ==
    LET existing_importer_column == FirstExisting(importer_columns)
    IN IF existing_importer_column = None \/ company_types = <<>> THEN <<>>
       ELSE <<Clause("company_type", existing_importer_column, company_types,
                     <<>>)>>

ExcludeClauses(exclude_keywords) ==
    LET columns == FirstExisting(product_columns) \o FirstExisting(company_columns)
        clause(i) == Clause("exclude_keywords", columns, "NOT LIKE",
                            [j \in DOMAIN columns |->
                                Pattern(lower(exclude_keywords[i]))])
    IN IF columns = <<>> THEN <<>>
       ELSE [i \in DOMAIN exclude_keywords |-> clause(i)]

NumericClauses(numeric_range) ==
    LET field == IF numeric_range.field = None THEN "price"
                 ELSE numeric_range.field[1]
    IN (IF numeric_range.min
        THEN <<Clause("numeric_range", <<field>>, ">=", <<"min">>)>> ELSE <<>>)
       \o (IF numeric_range.max
           THEN <<Clause("numeric_range", <<field>>, "<=", <<"max">>)>> ELSE <<>>)

RECURSIVE Flatten(_)
Flatten(ss) == IF ss = <<>> THEN <<>> ELSE Head(ss) \o Flatten(Tail(ss))

\* _build_filter_conditions: [filter_clause, conditions, parameters];
\* filter_clause is "1=1" or "AND" (the conditions joined by AND)
build_filter_conditions(filters) ==
    LET conditions ==
            (IF filters.date_range = None THEN <<>>
             ELSE DateClauses(filters.date_range[1]))
            \o (IF filters.certification_type = None THEN <<>>
                ELSE CertificationClauses(filters.certification_type[1]))
            \o (IF filters.company_type = None THEN <<>>
                ELSE CompanyClauses(filters.company_type[1]))
            \o (IF filters.exclude_keywords = None THEN <<>>
                ELSE ExcludeClauses(filters.exclude_keywords[1]))
            \o (IF filters.numeric_range = None THEN <<>>
                ELSE NumericClauses(filters.numeric_range[1]))
    IN IF conditions = <<>>
       THEN [filter_clause |-> "1=1", conditions |-> <<>>, parameters |-> <<>>]
       ELSE [filter_clause |-> "AND", conditions |-> conditions,
             parameters |->
                 Flatten([i \in DOMAIN conditions |-> conditions[i].parameters])]

\* search_streaming line 1278; values: the strings the caller passed as
\* filter values
BuildFilterConditions(filters) ==
    /\ cpc = "where"
    /\ LET r == build_filter_conditions(filters)
       IN /\ compiled' = [op |-> "filter", filters |-> filters,
                          filter_clause |-> r.filter_clause,
                          conditions |-> r.conditions,
                          parameters |-> r.parameters]
          /\ query' = Local("filter", [filter_clause |-> r.filter_clause,
                                       conditions |-> r.conditions,
                                       parameters |-> r.parameters,
                                       values |->
                                           (IF filters.certification_type = None THEN {}
                                            ELSE Elements(filters.certification_type[1]))
                                           \cup (IF filters.company_type = None THEN {}
                                                 ELSE Elements(filters.company_type[1]))
                                           \cup (IF filters.numeric_range = None THEN {}
                                                 ELSE Elements(filters.numeric_range[1].field))])
    /\ cpc' = "filter"
    /\ UNCHANGED <<execVars, poolVars, schemaVars, available_fields,
                   dynamic_required_fields>>

\* what the projection is built from: whether category and subcategory are
\* given, the search_fields and display_fields that field_settings.json
\* configures for them, and the caller's required_fields
ProjectionSettings ==
    [category_known : BOOLEAN,
     search_columns : {<<>>, <<"maker_name", "model_name">>},
     display_columns : {<<>>, <<"maker_name", "cert_no">>},
     required_fields : {<<>>, <<"price", "cert_date">>}]

\* order-preserving removal of duplicates and empty names (lines 698-703)
RECURSIVE Dedup(_, _)
Dedup(all_columns, seen) ==
    IF all_columns = <<>> THEN <<>>
    ELSE LET col == Head(all_columns)
         IN IF col # "" /\ col \notin seen
            THEN <<col>> \o Dedup(Tail(all_columns), seen \cup {col})
            ELSE Dedup(Tail(all_columns), seen)

\* the projection without the restriction to the columns of the schema
ExistingCols_unfiltered(essential_cols) == essential_cols

ExistingCols(essential_cols) ==
    LET present(c) == Contains(available_fields, c)
    IN SelectSeq(essential_cols, present)

\* _get_essential_columns: "*" is [star |-> TRUE], a column list
\* [star |-> FALSE, columns]
Star == [star |-> TRUE, columns |-> <<>>]

get_essential_columns(settings) ==
    IF ~settings.category_known THEN Star
    ELSE IF available_fields = <<>> THEN Star
    ELSE LET sort_columns ==
                 FirstExisting(<<"cert_date", "crawl_date", "crawled_at",
                                 "seollibil">>)
             all_columns == settings.search_columns \o settings.display_columns
                            \o sort_columns \o settings.required_fields
             extra(c) == c # "" /\ ~Contains(all_columns, c)
             essential_cols == Dedup(all_columns, {})
                               \o SelectSeq(dynamic_required_fields, extra)
             existing_cols == ExistingCols(essential_cols)
         IN IF existing_cols = <<>> THEN Star
            ELSE [star |-> FALSE, columns |-> existing_cols]

\* search_streaming line 1284: _build_base_query -> _get_essential_columns
GetEssentialColumns(settings) ==
    /\ cpc = "filter"
    /\ compiled' = [op |-> "projection", settings |-> settings,
                    projection |-> get_essential_columns(settings)]
    /\ query' = Local("base_query", get_essential_columns(settings))
    /\ cpc' = "projected"
    /\ UNCHANGED <<execVars, poolVars, schemaVars, available_fields,
                   dynamic_required_fields>>

\* lines 1343-1378 for a tabular file: select_clause is a second
\* _get_essential_columns() (the same list: dynamic_required_fields has not
\* changed), the conditions other than "1=1" are joined by AND
\* ("(where_clause)" first, then the filter clause), combined_parameters is
\* the search parameters extended by the filter parameters, and without any
\* condition there is no WHERE and no parameter.  texts: what the f-strings
\* write into the statement for each condition (column names, operator) and
\* its number of '?' placeholders; company_type writes literal predicates.
FinalQuery ==
    LET where == query.where
        filter == query.filter
        where_applies == where.where_clause # "1=1"
        filter_applies == filter.filter_clause # "1=1"
        WhereText(condition) ==
            [kind |-> "search", columns |-> <<condition.column>>,
             operator |-> <<condition.operator>>, placeholders |-> 1]
        CompanyPredicates(company_types) ==
            (IF Contains(company_types, "manufacturer")
             THEN <<"IS NULL OR = ''">> ELSE <<>>)
            \o (IF Contains(company_types, "importer")
                THEN <<"IS NOT NULL AND != ''">> ELSE <<>>)
        FilterText(clause) ==
            [kind |-> clause.kind, columns |-> clause.columns,
             operator |-> IF clause.kind = "company_type"
                          THEN CompanyPredicates(clause.operator)
                          ELSE <<clause.operator>>,
             placeholders |-> Len(clause.parameters)]
        combined_conditions ==
            (IF where_applies
             THEN <<[clause |-> where.where_clause,
                     texts |-> [i \in DOMAIN where.conditions |->
                                   WhereText(where.conditions[i])]]>>
             ELSE <<>>)
            \o (IF filter_applies
                THEN <<[clause |-> "AND",
                        texts |-> [i \in DOMAIN filter.conditions |->
                                      FilterText(filter.conditions[i])]]>>
                ELSE <<>>)
        combined_parameters ==
            (IF where_applies THEN where.parameters ELSE <<>>)
            \o (IF filter_applies THEN filter.parameters ELSE <<>>)
    IN [op |-> "final",
        select_clause |-> query.base_query,
        base_query |-> query.base_query,
        combined_conditions |-> combined_conditions,
        combined_parameters |->
            IF combined_conditions # <<>> THEN combined_parameters ELSE <<>>,
        where |-> where,
        filter |-> filter]

\* filtered_query and combined_parameters are ready for conn.execute
AssembleQuery ==
    /\ cpc = "projected"
    /\ query.op = "base_query"
    /\ query' = FinalQuery
    /\ cpc' = "final"
    /\ UNCHANGED <<execVars, poolVars, schemaVars, available_fields,
                   dynamic_required_fields, compiled>>

CompileNext ==
    \/ \E keyword \in Keywords, search_field \in SearchFields,
          case_config \in CaseConfigs :
          BuildWhereClause(keyword, search_field, case_config)
    \/ \E filters \in FilterInputs : BuildFilterConditions(filters)
    \/ \E settings \in ProjectionSettings : GetEssentialColumns(settings)

\* no filter, all five, and each filter alone
QueryFilters ==
    {f \in FilterInputs :
        Cardinality({k \in FilterKinds : f[k] # None}) \in {0, 1, Cardinality(FilterKinds)}}

QuerySettings == {x \in ProjectionSettings : x.search_columns = <<>>}

\* the compile phase of one search_streaming call, statement by statement
QueryNext ==
    \/ \E keyword \in {<<>>, <<"A">>, <<"a", "-">>}, search_field \in SearchFields,
          case_config \in CaseConfigs :
          BuildWhereClause(keyword, search_field, case_config)
    \/ \E filters \in QueryFilters : BuildFilterConditions(filters)
    \/ \E settings \in QuerySettings : GetEssentialColumns(settings)
    \/ AssembleQuery

(* -------------------------- specifications ----------------------------- *)
ExecNext ==
    \/ \E p \in Pages, m \in Modes, cs \in ChunkSizes :
          /\ (m[1] \/ ~m[2]) => cs = ExportChunkSize
          /\ StartRequest(p, m[1], m[2], cs)
    \/ ExecuteQuery
    \/ \E e \in EngineErrors, size_mb \in FileSizes : ExecuteFail(e, size_mb)
    \/ SizeRaise
    \/ \E sinkRaises \in BOOLEAN : FetchBatch(sinkRaises)
    \/ FetchExhausted
    \/ FetchFail
    \/ Finish(FALSE)

\* no schema lookup modelled in detail
PlanAtRest == SchemaInit /\ CompileAtRest

Init == ExecInit /\ PoolInit /\ PlanAtRest
Spec == Init /\ [][ExecNext]_vars

\* the same executor, with the paging client's observations recorded
PagingNext ==
    \/ \E p \in Pages, m \in Modes, cs \in ChunkSizes :
          /\ (m[1] \/ ~m[2]) => cs = ExportChunkSize
          /\ StartRequest(p, m[1], m[2], cs)
    \/ ExecuteQuery
    \/ \E e \in EngineErrors, size_mb \in FileSizes : ExecuteFail(e, size_mb)
    \/ SizeRaise
    \/ \E sinkRaises \in BOOLEAN : FetchBatch(sinkRaises)
    \/ FetchExhausted
    \/ FetchFail
    \/ Finish(TRUE)

SpecPaging == Init /\ [][PagingNext]_vars

\* the executor part is at rest while the pool is exercised
ExecAtRest ==
    /\ ExecInit
    /\ dataset = <<>>
    /\ file_kind = "json"
    /\ limit = None

InitPool == PoolInit /\ ExecAtRest /\ PlanAtRest
SpecPool == InitPool /\ [][PoolNext]_vars

\* the pool is at rest while the schema resolver is exercised
PoolAtRest == PoolInit

InitSchema == SchemaInit /\ CompileAtRest /\ ExecAtRest /\ PoolAtRest
SpecSchema == InitSchema /\ [][SchemaNext]_vars

\* a processor is constructed for one request on a file with some schema;
\* the caches are at rest while it compiles its query
InitCompile ==
    /\ available_fields \in CompileSchemas
    /\ dynamic_required_fields = <<>>
    /\ cpc = "new"
    /\ compiled = [op |-> "none"]
    /\ query = [op |-> "off"]
    /\ SchemaInit /\ ExecAtRest /\ PoolAtRest
SpecCompile == InitCompile /\ [][CompileNext]_vars

\* one processor assembles the statement of a search on a file with some
\* schema (those without the two alias columns entrprsNm and company_name)
InitQuery ==
    /\ available_fields \in {s \in CompileSchemas : ~Contains(s, "entrprsNm")
                                                    /\ ~Contains(s, "company_name")}
    /\ dynamic_required_fields = <<>>
    /\ cpc = "new"
    /\ compiled = [op |-> "none"]
    /\ query = [op |-> "new"]
    /\ SchemaInit /\ ExecAtRest /\ PoolAtRest
SpecQuery == InitQuery /\ [][QueryNext]_vars

(* ------------------------------ claims --------------------------------- *)
\* C1: for a fixed query with N matching rows, every page p >= 1 of search
\* (collect mode) reports pagination.total_count = N, pages past the end of
\* the result set included.
C1_TotalCountOnEveryPage ==
    (pc = "done" /\ collect_results /\ ~batch_error)
        => result.total_count = TotalRows

LastPage == (TotalRows + effective_limit[1] - 1) \div effective_limit[1]

\* C2: for page size L, the rows of pages 1..ceil(N/L) concatenated in order
\* are exactly the N matching rows, none repeated and none missing, and page p
\* reports has_next exactly when p < ceil(N/L) and has_prev exactly when p > 1,
\* for json, parquet and embedded-database files alike.
C2_PaginationComplete ==
    effective_limit # None =>
        /\ (pc = "done" /\ collect_results /\ ~batch_error /\ page <= LastPage)
              => /\ result.has_next = (page < LastPage)
                 /\ result.has_prev = (page > 1)
        /\ (next_page > 1 /\ next_page = LastPage + 1)
              => /\ Len(concat) = TotalRows
                 /\ NoDuplicates(concat)
                 /\ \A r \in 1..TotalRows : \E i \in 1..Len(concat) : concat[i] = r

\* C3: every successful result has total_pages = ceil(total_count / limit) and
\* items_per_page = limit when limit > 0, total_pages = 1 and has_next = FALSE
\* when limit is None or <= 0, and always has_next = (page < total_pages),
\* has_prev = (page > 1), current_page = page.
C3_PaginationFields ==
    pc = "done" =>
        /\ (limit # None /\ limit[1] > 0)
              => /\ result.total_pages * limit[1] >= result.total_count
                 /\ (result.total_pages - 1) * limit[1] < result.total_count
                 /\ result.items_per_page = limit[1]
        /\ (limit = None \/ limit[1] <= 0)
              => /\ result.total_pages = 1
                 /\ result.has_next = FALSE
        /\ result.has_next = (page < result.total_pages)
        /\ result.has_prev = (page > 1)
        /\ result.current_page = page

\* C3 witness: a result with a limit set and more rows than one page holds
C3_Witness ==
    /\ pc = "done"
    /\ effective_limit # None
    /\ result.total_count > effective_limit[1]
    /\ result.total_count % effective_limit[1] # 0
    /\ page > 1

\* C4: in streaming mode the reported total_count equals the number of rows
\* handed to the sink over the whole request.
C4_StreamTotalIsRowsStreamed ==
    (pc = "done" /\ streaming_mode) => result.total_count = SumLen(sink_calls)

\* C5: streamAll with chunkSize = 1000 reports the same total row count as
\* search in collect mode with limit = None over the same predicate.
C5_StreamCollectSameTotal ==
    (collect_total # None /\ stream_total # None) => collect_total = stream_total

\* C6: in streaming mode the sink is invoked once per fetched non-empty batch
\* with 1..chunk_size rows and the cumulative row count (strictly increasing);
\* the batches concatenated are the query's row sequence in order, no row is
\* delivered twice, and no rows are kept (buffer cleared, results empty).
C6_SinkOncePerBatch ==
    streaming_mode =>
        /\ Len(sink_calls) = fetches
        /\ \A i \in 1..Len(sink_calls) :
              /\ Len(sink_calls[i].rows) >= 1
              /\ Len(sink_calls[i].rows) <= chunk_size
              /\ sink_calls[i].total = SumLen(SubSeq(sink_calls, 1, i))
              /\ i > 1 => sink_calls[i].total > sink_calls[i - 1].total
        /\ Len(ConcatRows(sink_calls)) <= Len(query_rows)
        /\ ConcatRows(sink_calls)
              = SubSeq(query_rows, 1, Len(ConcatRows(sink_calls)))
        /\ NoDuplicates(ConcatRows(sink_calls))
        /\ ~batch_error => chunk_buffer = <<>>
        /\ results = <<>>
        /\ pc = "done" => result.results = <<>>
        /\ (pc = "done" /\ ~batch_error) => ConcatRows(sink_calls) = query_rows

\* C6 witness: a finished streaming request whose sink was invoked for
\* several batches
C6_Witness ==
    /\ pc = "done"
    /\ streaming_mode
    /\ ~batch_error
    /\ Len(sink_calls) >= 2
    /\ \E i \in 1..Len(sink_calls) : Len(sink_calls[i].rows) >= 2

\* threads that hold a connection and lock handed out by the pool
HasConnection(t) == my_conn[t] # None

\* C7: under any interleaving of checkouts the pool holds at most one
\* connection and exactly one lock per connection key; threads using the same
\* key concurrently get the same connection and the same lock; an entry once
\* created is never replaced or removed.
C7_OneConnectionPerKey ==
    /\ [](/\ \A k \in Locators :
                /\ conn_created[k] <= 1
                /\ (CONNECTION_CACHE[k] = None) = (CONNECTION_LOCKS[k] = None)
                /\ Len(lock_holder[k]) = conn_created[k]
          /\ \A t, u \in Threads :
                (HasConnection(t) /\ HasConnection(u)
                    /\ connection_key(loc[t]) = connection_key(loc[u]))
                => (my_conn[t] = my_conn[u] /\ my_lock[t] = my_lock[u]))
    /\ [][\A k \in Locators :
             CONNECTION_CACHE[k] # None
             => /\ CONNECTION_CACHE'[k] = CONNECTION_CACHE[k]
                /\ CONNECTION_LOCKS'[k] = CONNECTION_LOCKS[k]]_vars

\* C7 witness: two requests in flight on one locator at the same time, the
\* second checked out while the first was still creating or using the entry
C7_Witness ==
    \E t, u \in Threads :
        /\ t # u
        /\ loc[t] = loc[u]
        /\ tpc[t] = "fetch"
        /\ tpc[u] = "wait_conn_lock"
        /\ my_conn[t] = my_conn[u]
        /\ my_lock[t] = my_lock[u]

\* C8: at most one request at a time is inside its statement section (from
\* query compilation to the result) on a given pooled connection: search,
\* streamAll and distinctValues on one locator never interleave.
C8_OneStatementPerConnection ==
    \A t, u \in Threads :
        (t # u /\ InConnLock(t) /\ InConnLock(u))
        => connection_key(loc[t]) # connection_key(loc[u])

\* C8 witness: a distinct-values request waits for the lock of a locator on
\* which a search is fetching
C8_Witness ==
    \E t, u \in Threads :
        /\ t # u
        /\ loc[t] = loc[u]
        /\ op[t] = "search" /\ tpc[t] = "fetch"
        /\ op[u] = "distinct" /\ tpc[u] = "wait_conn_lock"

\* C9: a request on locator A never waits on a lock held because of a request
\* on another locator B: not on the pool-creation lock, not on a connection
\* lock, not on the download lock.
C9_NoCrossLocatorBlocking ==
    \A t, u \in Threads :
        (t # u /\ loc[t] # loc[u])
        => /\ ~(tpc[t] = "get_conn" /\ CONNECTION_CACHE_LOCK = u)
           /\ ~(tpc[t] \in EnsurePoints /\ DUCKDB_REMOTE_CACHE_LOCK = u)
           /\ ~(tpc[t] = "wait_conn_lock"
                  /\ lock_holder[connection_key(loc[t])][my_lock[t][1]] = u)

\* a transfer of the thread's locator is in progress
Downloading(t) == tpc[t] \in DownloadPoints

\* C10: a remote embedded-database locator whose cached local file exists is
\* never transferred again: no transfer is in progress or starts for it, every
\* materialization returns the cached path, and the cache entry is never
\* removed or changed.
C10_DownloadAtMostOnce ==
    /\ [](/\ \A t \in Threads : Downloading(t) => ~CachedCopyExists(loc[t])
          /\ \A t, u \in Threads :
                (t # u /\ Downloading(t) /\ Downloading(u)) => loc[t] # loc[u]
          /\ \A t \in Threads :
                local_path[t] # None => local_path[t] = DUCKDB_REMOTE_CACHE[loc[t]])
    /\ [][/\ \A k \in Locators :
               DUCKDB_REMOTE_CACHE[k] # None
               => DUCKDB_REMOTE_CACHE'[k] = DUCKDB_REMOTE_CACHE[k]
          /\ \A t \in Threads :
               (CachedCopyExists(loc[t]) /\ tpc[t] \in EnsurePoints)
               => ~Downloading(t)']_vars

\* C10 witness: of two requests in flight on one remote locator, one
\* downloaded the file and the other was served the cached copy
C10_Witness ==
    \E t, u \in Threads :
        /\ t # u
        /\ loc[t] = loc[u]
        /\ materialized[t] = "downloaded"
        /\ materialized[u] = "cached"
        /\ local_path[t] = local_path[u]
        /\ CachedCopyExists(loc[t])

\* a step in which thread t's transfer ends without a file at the cache path
DownloadFailedStep(t) ==
    /\ tpc[t] \in DownloadPoints
    /\ tpc'[t] \notin DownloadPoints
    /\ cache_path(loc[t]) \notin cache_files'

\* what a failed transfer of thread t leaves behind: no temp file, no new
\* cache entry, no new file, the download lock free, and the locator still
\* without a usable cached copy (so the next request downloads again)
FailureCleanedUp(t) ==
    /\ temp_path(loc[t]) \notin temp_files'
    /\ DUCKDB_REMOTE_CACHE' = DUCKDB_REMOTE_CACHE
    /\ cache_files' = cache_files
    /\ DUCKDB_REMOTE_CACHE_LOCK' = 0
    /\ ~(/\ DUCKDB_REMOTE_CACHE'[loc[t]] # None
         /\ DUCKDB_REMOTE_CACHE'[loc[t]][1] \in cache_files')

\* C11: when the materialization of a remote embedded-database file fails,
\* the '.download' temp file is gone, no cache entry and no file at the cache
\* path are added, the download lock is released, the request that triggered
\* the transfer ends with an error, and a later request downloads again.
C11_DownloadFailureIsFatal ==
    [][\A t \in Threads :
          DownloadFailedStep(t) => FailureCleanedUp(t) /\ tpc'[t] = "idle"]_vars

\* a step in which a _get_available_fields call on locator l returns
ReturnedStep(l) == lookups'[l] # lookups[l]

\* a step in which a call on locator l goes to direct introspection
IntrospectionStarts(l) ==
    \E t \in Threads : sloc[t] # Some(l) /\ sloc'[t] = Some(l)

\* a step in which a call on locator l begins (and, on a cache hit, returns)
LookupStep(l) ==
    /\ \A t \in Threads : sloc[t] # Some(l)
    /\ ReturnedStep(l) \/ IntrospectionStarts(l)

C14_CachedUnderBothKeys ==
    [][\A l \in SchemaLocators :
          ~should_use_dynamic_schema(l)
          => /\ ReturnedStep(l) /\ returned'.source = "introspection"
                => /\ SCHEMA_CACHE_BY_URL'[l] = Some(returned'.fields)
                   /\ SCHEMA_CACHE_BY_FILENAME'[l.file_name] = Some(returned'.fields)
             /\ LookupStep(l) /\ SCHEMA_CACHE_BY_FILENAME[l.file_name] # None
                => /\ ReturnedStep(l)
                   /\ returned'.fields = SCHEMA_CACHE_BY_FILENAME[l.file_name][1]
                   /\ returned'.source =
                         IF SCHEMA_CACHE_BY_URL[l] # None THEN "by_url"
                         ELSE "by_filename"]_vars

\* C15: schema resolution never raises: a failed introspection returns the
\* empty column list, leaves both schema caches as they were (the locator
\* still has no by-locator entry, so it is looked up afresh next time), and
\* the temporary introspection connection is closed.
C15_IntrospectionFailureSwallowed ==
    /\ [](\A t \in Threads : temp_conn[t] => spc[t] = "introspecting")
    /\ [][\A l \in SchemaLocators :
            ReturnedStep(l) /\ returned'.source = "failed"
            => /\ returned'.fields = <<>>
               /\ SCHEMA_CACHE_BY_URL' = SCHEMA_CACHE_BY_URL
               /\ SCHEMA_CACHE_BY_FILENAME' = SCHEMA_CACHE_BY_FILENAME
               /\ SCHEMA_CACHE_BY_URL'[l] = None
               /\ \A t \in Threads :
                     sloc[t] = Some(l) => spc'[t] = "idle" /\ ~temp_conn'[t]]_vars

C15_Witness ==
    /\ returned.source = "failed"
    /\ \A t \in Threads : spc[t] = "idle"
    /\ \E l \in SchemaLocators : SCHEMA_CACHE_BY_URL[l] # None
    /\ \E l \in SchemaLocators :
          /\ ~should_use_dynamic_schema(l)
          /\ lookups[l] = 1 /\ introspections[l] = 1 /\ ~served[l]

\* a search predicate was compiled in this step through the alias table
ResolvedStep ==
    /\ cpc = "new" /\ cpc' = "where"
    /\ compiled'.keyword # <<>>
    /\ compiled'.search_field \notin exact_match_fields

\* C16: for every logical search field and every schema, the resolved search
\* columns are exactly the field's aliases present in the schema, in
\* alias-table order; when no alias is present, or the field has no alias
\* list, they are the raw field name alone if it is a schema column, and
\* empty otherwise.
C16_ResolvedSearchColumns ==
    [][ResolvedStep =>
        LET sf == compiled'.search_field
            resolved == compiled'.existing_fields
            aliases == IF sf \in DOMAIN field_mappings
                       THEN field_mappings[sf] ELSE <<>>
            hits == {i \in DOMAIN aliases : aliases[i] \in
                        {available_fields[k] : k \in DOMAIN available_fields}}
        IN /\ \A i \in DOMAIN resolved : Contains(available_fields, resolved[i])
           /\ IF hits # {}
              THEN /\ Len(resolved) = Cardinality(hits)
                   /\ \A i \in DOMAIN resolved :
                        \E h \in hits :
                           /\ resolved[i] = aliases[h]
                           /\ Cardinality({g \in hits : g < h}) = i - 1
              ELSE resolved = IF Contains(available_fields, sf)
                              THEN <<sf>> ELSE <<>>]_vars

C16_Witness ==
    /\ cpc = "where"
    /\ compiled.search_field = "company_name"
    /\ compiled.keyword # <<>>
    /\ Contains(available_fields, "company_name")
    /\ compiled.existing_fields = <<"maker_name", "entrprsNm">>

\* the projection was built in this step
ProjectedStep == cpc = "filter" /\ cpc' = "projected"

FirstIndex(list, x) ==
    CHOOSE i \in DOMAIN list : list[i] = x /\ \A j \in 1..(i - 1) : list[j] # x

\* columns is the list of fields with duplicates removed in first-seen order,
\* restricted to the columns of the schema
IsFirstSeenUnion(columns, fields) ==
    /\ Elements(columns) = Elements(fields) \cap Elements(available_fields)
    /\ NoDuplicates(columns)
    /\ \A i, j \in DOMAIN columns :
          i < j => FirstIndex(fields, columns[i]) < FirstIndex(fields, columns[j])

\* the projection of this step is built from the given fields
ProjectionOf(fields) ==
    LET projection == compiled'.projection
    IN /\ projection.star <=>
             \/ Elements(fields) \cap Elements(available_fields) = {}
             \/ available_fields = <<>>
             \/ ~compiled'.settings.category_known
       /\ ~projection.star =>
             /\ projection.columns # <<>>
             /\ IsFirstSeenUnion(projection.columns, fields)

\* C17 as stated: the projection is the union of the search, display,
\* required and dynamic fields, duplicates removed in first-seen order,
\* restricted to the schema, and '*' exactly when that intersection is empty,
\* the schema is empty or no category/subcategory is known.
C17_ProjectionOfFourLists ==
    [][ProjectedStep =>
        ProjectionOf(compiled'.settings.search_columns
                     \o compiled'.settings.display_columns
                     \o compiled'.settings.required_fields
                     \o dynamic_required_fields)]_vars

\* C17, amended: the first date column of cert_date, crawl_date, crawled_at,
\* seollibil that the schema has is projected too, after the display fields.
C17_ProjectionWithSortColumn ==
    [][ProjectedStep =>
        ProjectionOf(compiled'.settings.search_columns
                     \o compiled'.settings.display_columns
                     \o FirstExisting(<<"cert_date", "crawl_date", "crawled_at",
                                        "seollibil">>)
                     \o compiled'.settings.required_fields
                     \o dynamic_required_fields)]_vars

C17_Witness ==
    /\ cpc = "projected"
    /\ compiled.settings.search_columns = <<"maker_name", "model_name">>
    /\ compiled.settings.display_columns = <<"maker_name", "cert_no">>
    /\ compiled.settings.required_fields = <<"price", "cert_date">>
    /\ dynamic_required_fields = <<"maker_name", "entrprsNm">>
    /\ compiled.projection.columns =
          <<"maker_name", "cert_no", "cert_date", "price", "entrprsNm">>

\* the filter predicate was compiled in this step
FilterStep == cpc = "where" /\ cpc' = "filter"

\* no column that a filter of this kind could use is in the schema
NeededColumnAbsent(kind, value) ==
    CASE kind = "date_range" -> FirstExisting(date_columns) = None
      [] kind = "certification_type" -> FirstExisting(cert_columns) = None
      [] kind = "company_type" -> FirstExisting(importer_columns) = None
      [] kind = "exclude_keywords" ->
            FirstExisting(product_columns) \o FirstExisting(company_columns) = <<>>
      [] kind = "numeric_range" ->
            ~Contains(available_fields,
                      IF value.field = None THEN "price" ELSE value.field[1])

\* the clauses of the compiled predicate that are not of the given kinds
OtherClauses(kinds) ==
    LET other(c) == c.kind \notin kinds
    IN SelectSeq(compiled'.conditions, other)

\* C18: for each of the five filter kinds, when the column the clause needs is
\* absent from the schema, the clause is omitted from the predicate and
\* contributes no bound parameters.
C18_AbsentColumnClauseOmitted ==
    [][FilterStep =>
        LET filters == compiled'.filters
            absent == {k \in FilterKinds :
                          filters[k] # None /\ NeededColumnAbsent(k, filters[k][1])}
        IN /\ OtherClauses(absent) = compiled'.conditions
           /\ compiled'.parameters =
                 Flatten([i \in DOMAIN OtherClauses(absent) |->
                             OtherClauses(absent)[i].parameters])]_vars

\* the search predicate was compiled in this step, for a keyword
WhereStep == cpc = "new" /\ cpc' = "where" /\ compiled'.keyword # <<>>

\* condition i of the predicate compiled in this step is case-folded, and
\* every keyword that differs from the one given only in letter case compiles
\* to the same condition and parameter and matches the same stored values
FoldedAt(i) ==
    /\ compiled'.conditions[i].lowered
    /\ compiled'.parameters[i].text = lower(compiled'.keyword)
    /\ \A other \in Keywords :
          lower(other) = lower(compiled'.keyword)
          => LET r == build_where_clause(other, compiled'.search_field,
                                         compiled'.case_config)
             IN /\ r.where_clause = compiled'.where_clause
                /\ r.conditions[i] = compiled'.conditions[i]
                /\ r.parameters[i] = compiled'.parameters[i]
                /\ \A value \in Keywords :
                      ConditionMatches(r.conditions[i], r.parameters[i], value)
                      <=> ConditionMatches(compiled'.conditions[i],
                                           compiled'.parameters[i], value)

ExactSearched ==
    exact_match_fields
    \cup {"cert_no", "cert_num", "declare_no", "singobeonho", "seunginbeonho"}

\* value with hyphens and spaces removed
Stripped(value) == replace(replace(value, "-"), " ")

\* C20: every field that is searched with exact match matches a row only when
\* the stored value with hyphens and spaces removed equals the keyword with
\* hyphens and spaces removed; it never matches on a substring.
C20_ExactMatchOnlyOnEqualValue ==
    [][WhereStep =>
        \A i \in DOMAIN compiled'.conditions :
            compiled'.conditions[i].column \in ExactSearched
            => /\ compiled'.conditions[i].operator = "="
               /\ ~compiled'.parameters[i].wild
               /\ \A value \in Keywords :
                     ConditionMatches(compiled'.conditions[i],
                                      compiled'.parameters[i], value)
                     => Stripped(value) = Stripped(compiled'.keyword)]_vars

C20_Witness ==
    /\ cpc = "where"
    /\ compiled.search_field = "business_number"
    /\ compiled.keyword = <<"A", "-">>
    /\ Len(compiled.conditions) = 1
    /\ ConditionMatches(compiled.conditions[1], compiled.parameters[1],
                        <<" ", "A">>)
    /\ ~ConditionMatches(compiled.conditions[1], compiled.parameters[1],
                         <<"A", "A">>)

\* fetchmany raised in this step (no batch was fetched, no sink was called)
FetchFailStep ==
    /\ pc = "fetching"
    /\ batch_error'
    /\ fetches' = fetches
    /\ sink_calls' = sink_calls

\* keys of the success dictionary that carry rows or pagination
ResultKeys ==
    {"results", "total_count", "total_pages", "current_page", "items_per_page",
     "has_next", "has_prev", "processed_records"}

\* r is one of the two error results: the large-file error with file_size_mb
\* and a suggestion, or the generic error with the raw message of an
\* exception that is not a read-size-limit violation
IsErrorResult(r) ==
    /\ DOMAIN r \cap ResultKeys = {}
    /\ \/ /\ r.error = "large_file_processing_failed"
          /\ {"file_size_mb", "suggestion"} \subseteq DOMAIN r
       \/ /\ r.error = "query_execution_failed"
          /\ "message" \in DOMAIN r
          /\ r.message \in EngineErrors \ {"maximum_object_size"}

\* C21: every engine or I/O exception raised while compiling or executing a
\* search comes back as an error result and is never raised to the caller:
\* no step leaves the request with an exception, a failed request carries
\* one of the two error results without rows or pagination, and a failed
\* fetch ends the request as failed.
C21_ExceptionsReturnedAsErrorResults ==
    [][/\ pc' # "raised"
       /\ (pc' = "failed" => IsErrorResult(result'))
       /\ (FetchFailStep => pc' = "failed")]_vars

\* thread t measures its file in this step
MeasureStep(t) == tpc[t] = "size" /\ tpc'[t] # "size"

\* the size the introspection is to report: the fixed estimate for a URL, the
\* exact size of an existing local file, zero for a missing one
EstimatedSizeMB(l) ==
    IF l.is_url THEN RemoteFileMB
    ELSE IF Exists(l) THEN LocalFileMB
    ELSE 0

\* C22: locator introspection never fails and has no side effects: no
\* request is ended by an exception of the constructor or of the size
\* measurement, the measured size is the fixed estimate for a remote locator,
\* the exact size for an existing local file and zero for a missing one, and
\* measuring changes neither the pool, the download cache nor the files.
C22_IntrospectionNeverFails ==
    [][\A t \in Threads :
          /\ tpc'[t] # "raised"
          /\ MeasureStep(t) =>
                /\ file_size_mb'[t] = Some(EstimatedSizeMB(loc[t]))
                /\ UNCHANGED <<CONNECTION_CACHE, CONNECTION_LOCKS, DUCKDB_REMOTE_CACHE,
                               cache_files, temp_files, local_files>>]_vars

\* the connection lock of thread t's locator is held by t
HoldsConnLock(t) ==
    /\ my_lock[t] # None
    /\ lock_holder[connection_key(loc[t])][my_lock[t][1]] = t

\* thread t holds some connection lock
HoldsAnyConnLock(t) ==
    \E k \in Locators : \E i \in 1..Len(lock_holder[k]) : lock_holder[k][i] = t

\* positions of a search between taking the lock and its end: compiling
\* (size and the materializations), executing, collecting or streaming
SearchPositions ==
    {"size", "fields_ensure", "fields_download", "base_ensure", "base_download",
     "resolve_ensure", "resolve_download", "order_ensure", "order_download",
     "execute", "fetch", "sink"}

\* the request of thread t moves forward: compiling -> executing ->
\* collecting or streaming -> done or failed
LifecycleStep(t) ==
    LET Compiling == SearchPositions \ {"execute", "fetch", "sink"}
    IN /\ (tpc[t] \in Compiling
            => tpc'[t] \in Compiling \cup {"execute", "idle", "raised"})
       /\ (tpc[t] = "execute" => tpc'[t] \in {"execute", "fetch"})
       /\ (tpc[t] \in {"fetch", "sink"} => tpc'[t] \in {"fetch", "sink", "idle"})

\* the lock is held in every position of a search from compiling on, nobody
\* else is at a statement of the locator's pooled connection while the
\* request fetches or streams, and a request that is over holds no lock
LockHeldAcrossRequest ==
    \A t \in Threads :
        /\ (op[t] = "search" /\ tpc[t] \in SearchPositions) => HoldsConnLock(t)
        /\ (tpc[t] \in {"fetch", "sink"}
              => \A u \in Threads \ {t} :
                    loc[u] = loc[t] => tpc[u] \notin {"size", "execute", "fetch", "sink"})
        /\ (tpc[t] \in {"idle", "raised"} => ~HoldsAnyConnLock(t))

\* C23: a search request goes through compiling, executing and collecting or
\* streaming to its end, never backwards, and holds its locator's lock all
\* the way: it holds the lock in every position from compiling on and so
\* whenever its sink is running, no other request on the locator is at a
\* statement of the pooled connection while it fetches or streams, and once
\* it is over (result returned or exception escaped) it holds no connection
\* lock.
C23_LockHeldAcrossRequest ==
    /\ []LockHeldAcrossRequest
    /\ [][\A t \in Threads : op[t] = "search" => LifecycleStep(t)]_vars

\* a streaming request is inside its sink while another request on the same
\* locator waits for the lock
C23_Witness ==
    \E t, u \in Threads :
        /\ t # u
        /\ loc[t] = loc[u]
        /\ tpc[t] = "sink"
        /\ tpc[u] = "wait_conn_lock"

\* thread t is at a lock acquisition and the lock is held by thread u
WaitsFor(t, u) ==
    \/ tpc[t] = "get_conn" /\ CONNECTION_CACHE_LOCK = u
    \/ tpc[t] = "wait_conn_lock" /\ lock_holder[connection_key(loc[t])][my_lock[t][1]] = u
    \/ tpc[t] \in EnsurePoints /\ DUCKDB_REMOTE_CACHE_LOCK = u

\* the connection locks thread t holds
HeldConnLocks(t) ==
    UNION {{<<k, i>> : i \in {j \in 1..Len(lock_holder[k]) : lock_holder[k][j] = t}} :
           k \in Locators}

\* C27: no deadlock is reachable with concurrent search, streamAll,
\* distinctValues and getAvailableFields requests: no set of threads waits
\* for locks held inside the set, every request that waits for nobody can
\* take a step, the holder of the pool-creation lock holds and awaits no
\* connection lock, the holder of the download lock is at no lock
\* acquisition, and no thread holds two connection locks or waits for one
\* while holding one.
C27_NoDeadlock ==
    /\ \A S \in (SUBSET Threads) \ {{}} :
          \E t \in S : \A u \in S : ~WaitsFor(t, u)
    /\ \A t \in Threads :
          /\ (tpc[t] # "idle" /\ \A u \in Threads : ~WaitsFor(t, u))
                => ENABLED ThreadStep(t)
          /\ CONNECTION_CACHE_LOCK = t
                => tpc[t] = "creating" /\ HeldConnLocks(t) = {}
          /\ DUCKDB_REMOTE_CACHE_LOCK = t => tpc[t] \in DownloadPoints
          /\ Cardinality(HeldConnLocks(t)) <= 1
          /\ tpc[t] = "wait_conn_lock" => HeldConnLocks(t) = {}

\* a request holds its connection lock and waits for the download lock,
\* which a request on another locator holds during its transfer
C27_Witness ==
    \E t, u \in Threads :
        /\ t # u
        /\ loc[t] # loc[u]
        /\ HeldConnLocks(t) # {}
        /\ WaitsFor(t, u)
        /\ tpc[u] \in DownloadPoints
        /\ HeldConnLocks(u) # {}

\* the columns the outer WHERE of the assembled statement refers to
WhereColumns ==
    UNION {UNION {Elements(c.texts[i].columns) : i \in DOMAIN c.texts} :
           c \in Elements(query.combined_conditions)}

\* C24: in every assembled statement whose base relation does not select
\* '*', every column the outer WHERE refers to (search columns,
\* business-number exact-match columns, the columns of the applied filter
\* clauses) is in the projection list of the base relation.
C24_WhereColumnsProjected ==
    (query.op = "final" /\ ~query.base_query.star)
        => WhereColumns \subseteq Elements(query.base_query.columns)

\* the condition texts of the assembled statement, in order
QueryTexts == Flatten([i \in DOMAIN query.combined_conditions |->
                          query.combined_conditions[i].texts])

\* the '?' placeholders of the assembled statement, in order
Placeholders == Flatten([i \in DOMAIN QueryTexts |->
                            [j \in 1..QueryTexts[i].placeholders |-> "?"]])

\* the names and operators written into the text of the statement
TextTokens ==
    UNION {Elements(QueryTexts[i].columns) \cup Elements(QueryTexts[i].operator) :
           i \in DOMAIN QueryTexts}

\* C25: in every assembled statement the number of '?' placeholders equals
\* the length of the bound parameter list, the parameters are those of the
\* search predicate followed by those of the filter predicate in clause
\* order, no filter value is written into the text of the statement, and a
\* statement without predicate binds no parameter.
C25_PlaceholdersMatchParameters ==
    query.op = "final"
        => /\ Len(Placeholders) = Len(query.combined_parameters)
           /\ query.combined_parameters
                 = (IF query.where.where_clause # "1=1"
                    THEN query.where.parameters ELSE <<>>)
                   \o (IF query.filter.filter_clause # "1=1"
                       THEN Flatten([i \in DOMAIN query.filter.conditions |->
                                        query.filter.conditions[i].parameters])
                       ELSE <<>>)
           /\ TextTokens \cap query.filter.values = {}
           /\ (query.combined_conditions = <<>> => query.combined_parameters = <<>>)

\* the assembled statement has a condition no row satisfies
MatchesNoRow ==
    \E i \in DOMAIN query.combined_conditions :
        query.combined_conditions[i].clause = "1=0"

\* C29: a non-empty keyword is never dropped: when the search field resolves
\* to no column of the schema (an unsupported field such as 'all' included),
\* the assembled statement matches no row, for exact-match and
\* substring-match fields alike.
C29_KeywordNeverDropped ==
    (query.op = "final" /\ query.where.keyword # <<>> /\ query.where.conditions = <<>>)
        => MatchesNoRow

\* thread t's request ensures its view on the pooled connection in this step
EnsureViewStep(t) ==
    /\ tpc[t] \in {"base_ensure", "base_download"}
    /\ tpc'[t] \in {"execute", "resolve_ensure", "fetch"}

\* C26: ensuring the view is idempotent: every call on a connection, the
\* first and the repeated ones, succeeds and leaves exactly one attachment
\* under the alias of the locator and exactly one view of that locator's
\* name, selecting all columns of the file's table; a repeated call leaves
\* attachments and views as they were.
C26_EnsureViewIdempotent ==
    [][\A t \in Threads :
          EnsureViewStep(t) =>
            LET l == loc[t]
                before == catalog[connection_key(l)]
                after == catalog'[connection_key(l)]
            IN /\ tpc'[t] # "fetch"
               /\ Cardinality({d \in after.attached : d.alias = duckdb_alias(l)}) = 1
               /\ {v \in after.views : v.name = duckdb_view_name(l)}
                     = {[name |-> duckdb_view_name(l), alias |-> duckdb_alias(l),
                         table |-> duckdb_table_name(l), columns |-> "*"]}
               /\ after.views = {v \in after.views : v.name = duckdb_view_name(l)}
               /\ (before.calls > 0
                     => after.attached = before.attached /\ after.views = before.views)]_vars

\* the view has been ensured a second time on a pooled connection
C26_Witness ==
    \E k \in Locators :
        /\ catalog[k].calls >= 2
        /\ Cardinality(catalog[k].attached) = 1
        /\ Cardinality(catalog[k].views) = 1

\* a failure inside the batch loop of the request in progress: the sink
\* raised in the step's iteration, or fetchmany raised
BatchFailureStep ==
    /\ pc = "fetching"
    /\ ~batch_error
    /\ batch_error'

\* C28: when the sink raises or a batch fetch fails after k rows have been
\* processed, the executor stops fetching, calls the sink no further, and the
\* request ends with an error result, never with the success result over the
\* first k rows.
C28_BatchFailureIsAnError ==
    [][/\ (BatchFailureStep => pc' # "fetching")
       /\ ((batch_error /\ batch_error')
             => /\ fetches' = fetches
                /\ fetched' = fetched
                /\ sink_calls' = sink_calls
                /\ pc' \in {"failed", "raised"} \cup {pc}
                /\ (pc' = "failed" => result'.error # "none"))]_vars

\* the dataset a file name names: the dataset of a pattern occurring in the
\* name that is part of no longer pattern occurring in it
NamedDataset(file_name) ==
    LET pattern(ij) == dataset_patterns[ij[1]].patterns[ij[2]]
        hits == {ij \in (DOMAIN dataset_patterns) \X (1..3) :
                    /\ ij[2] \in DOMAIN dataset_patterns[ij[1]].patterns
                    /\ IsSubstring(pattern(ij), Tokens(file_name))}
        top == {ij \in hits :
                   \A other \in hits :
                       IsSubstring(pattern(ij), pattern(other))
                           => pattern(other) = pattern(ij)}
    IN IF top = {} THEN None
       ELSE Some(dataset_patterns[(CHOOSE ij \in top : TRUE)[1]].dataset)

\* a schema is cached under the file name
CachedSchema(file_name) ==
    /\ file_name \in DOMAIN SCHEMA_CACHE_BY_FILENAME
    /\ SCHEMA_CACHE_BY_FILENAME[file_name] # None

\* a lookup on l is answered by the alias lookup in this step
AliasLookupStep(l) ==
    /\ lookups'[l] = lookups[l] + 1
    /\ returned'.source = "alias"

\* C30: the alias lookup for an embedded-database locator answers only with
\* the cached schema of the dataset its file name names: of two datasets whose
\* patterns both occur in the name it selects the more specific one, and it
\* answers nothing when that dataset's schema is not cached.
C30_AliasLookupNamedDataset ==
    [][\A l \in SchemaLocators :
          AliasLookupStep(l) =>
            /\ matched_dataset(l.file_name) = NamedDataset(l.file_name)
            /\ CachedSchema(base_target(NamedDataset(l.file_name)[1]))
            /\ returned'.fields =
                 SCHEMA_CACHE_BY_FILENAME[base_target(NamedDataset(l.file_name)[1])][1]]_vars

====
